---- MODULE Spec2Model ----
(***************************************************************************)
(* Polish bond tracking engine of wealthfolio-importer                     *)
(* (src/src/services/polish-bonds.ts).                                     *)
(*                                                                         *)
(* The file holds two copies of the service: lines 1-891 (event-based      *)
(* schedule, fixed download URL) and lines 893-1879 (daily schedule, URL   *)
(* discovered from the bonds page).  The sync engine                       *)
(* (startPolishBondTracking) and the workbook cache (getWorkbook) are the  *)
(* same code in both copies; the model follows the first copy and names    *)
(* the second where it differs.                                            *)
(*                                                                         *)
(* Conventions.                                                            *)
(*  - A JavaScript string is a sequence of one-character strings.          *)
(*  - A calendar date (a local-midnight Date) is its day number, the       *)
(*    count of days since 1970-01-01.                                      *)
(*  - Money is an integer count of thousandths (100.003 is 100003); a      *)
(*    rate is an integer count of thousandths too (0.03 is 30).  The       *)
(*    arithmetic is exact where the code's is IEEE double.                 *)
(*  - One action is one run of the event loop: the code from one           *)
(*    suspension (an await on host or network I/O) to the next.            *)
(***************************************************************************)
EXTENDS Integers, Sequences, FiniteSets, TLC

(***************************************************************************)
(* Strings                                                                 *)
(***************************************************************************)
UpperChars == <<"A","B","C","D","E","F","G","H","I","J","K","L","M",
                "N","O","P","Q","R","S","T","U","V","W","X","Y","Z">>

LowerChars == <<"a","b","c","d","e","f","g","h","i","j","k","l","m",
                "n","o","p","q","r","s","t","u","v","w","x","y","z">>

DigitChars == <<"0","1","2","3","4","5","6","7","8","9">>

SpaceChars == {" ", "\t", "\n"}

Range(f) == {f[i] : i \in DOMAIN f}

IndexOf(seq, c) == CHOOSE i \in DOMAIN seq : seq[i] = c

IsUpper(c) == c \in Range(UpperChars)

IsDigit(c) == c \in Range(DigitChars)

DigitValue(c) == IndexOf(DigitChars, c) - 1

\* String.prototype.toUpperCase, one character
ToUpperChar(c) ==
  IF c \in Range(LowerChars) THEN UpperChars[IndexOf(LowerChars, c)] ELSE c

\* String.prototype.trim
RECURSIVE TrimLeft(_)
TrimLeft(s) ==
  IF s # <<>> /\ Head(s) \in SpaceChars THEN TrimLeft(Tail(s)) ELSE s

RECURSIVE TrimRight(_)
TrimRight(s) ==
  IF s # <<>> /\ s[Len(s)] \in SpaceChars
  THEN TrimRight(SubSeq(s, 1, Len(s) - 1))
  ELSE s

Trim(s) == TrimRight(TrimLeft(s))

upperCased(value) == [i \in 1..Len(value) |-> ToUpperChar(value[i])]

\* value.trim().toUpperCase()
normalizeSymbol(value) ==
  LET t == Trim(value) IN [i \in 1..Len(t) |-> ToUpperChar(t[i])]

\* A missing object (null, undefined) where the present value is a record
NONE == [none |-> TRUE]

\* the optional group (?:\.(\d{1,2}))? against the rest of the string
tailMatches(tail) ==
  \/ tail = <<>>
  \/ /\ Len(tail) \in {2, 3}
     /\ tail[1] = "."
     /\ \A i \in 2..Len(tail) : IsDigit(tail[i])

\* /^([A-Z]{3}\d{4})(?:\.(\d{1,2}))?$/.exec(s): the groups, or NONE
BOND_SYMBOL_PATTERN(s) ==
  IF /\ Len(s) >= 7
     /\ \A i \in 1..3 : IsUpper(s[i])
     /\ \A j \in 4..7 : IsDigit(s[j])
     /\ tailMatches(SubSeq(s, 8, Len(s)))
  THEN [g1 |-> SubSeq(s, 1, 7),
        g2 |-> IF Len(s) = 7 THEN <<>> ELSE SubSeq(s, 9, Len(s))]
  ELSE NONE

\* Number("07") = 7
RECURSIVE DigitsToNumber(_)
DigitsToNumber(ds) ==
  IF ds = <<>> THEN 0
  ELSE 10 * DigitsToNumber(SubSeq(ds, 1, Len(ds) - 1)) + DigitValue(ds[Len(ds)])

\* lines 213-217: the result for a match
bondReference(match) ==
  IF match = NONE THEN NONE
  ELSE [seriesId |-> match.g1,
        bondType |-> SubSeq(match.g1, 1, 3),
        hasDay |-> match.g2 # <<>>,
        purchaseDay |-> IF match.g2 # <<>> THEN DigitsToNumber(match.g2)
                        ELSE 0]

\* hasDay is "purchaseDay !== undefined"; purchaseDay is 0 when there is none
\* (match[2] being digits, Number(match[2]) is never NaN).
parseBondSymbol(symbol) ==
  bondReference(BOND_SYMBOL_PATTERN(normalizeSymbol(symbol)))

(***************************************************************************)
(* Calendar: a date is its day number since 1970-01-01                     *)
(***************************************************************************)
\* new Date(y, m - 1, d) for a month m in 1..12 and a day d in 1..31
DateOf(y, m, d) ==
  LET yy == IF m <= 2 THEN y - 1 ELSE y
      era == yy \div 400
      yoe == yy - era * 400
      mp == IF m > 2 THEN m - 3 ELSE m + 9
      doy == (153 * mp + 2) \div 5 + d - 1
      doe == yoe * 365 + yoe \div 4 - yoe \div 100 + doy
  IN era * 146097 + doe - 719468

\* the civil date of day doy (from March 1) of year yoe of a 400-year era
CivilOfMonth(era, yoe, doy, mp) ==
  [y |-> yoe + era * 400 + (IF mp >= 10 THEN 1 ELSE 0),
   m |-> IF mp < 10 THEN mp + 3 ELSE mp - 9,
   d |-> doy - (153 * mp + 2) \div 5 + 1]

CivilOfDay(era, yoe, doy) == CivilOfMonth(era, yoe, doy, (5 * doy + 2) \div 153)

CivilOfYear(era, doe, yoe) ==
  CivilOfDay(era, yoe, doe - (365 * yoe + yoe \div 4 - yoe \div 100))

CivilOfEra(zz, era) ==
  CivilOfYear(era, zz - era * 146097,
              ((zz - era * 146097) - (zz - era * 146097) \div 1460
               + (zz - era * 146097) \div 36524
               - (zz - era * 146097) \div 146096) \div 365)

\* [y, m, d] of a day number: getFullYear(), getMonth() + 1, getDate()
Civil(z) == CivilOfEra(z + 719468, (z + 719468) \div 146097)

\* new Date(year, monthIndex, day) with monthIndex >= 0 possibly past 11
DateOfMonthIndex(year, monthIndex, day) ==
  DateOf(year + monthIndex \div 12, (monthIndex % 12) + 1, 1) + day - 1

Max(a, b) == IF a >= b THEN a ELSE b

Min(a, b) == IF a <= b THEN a ELSE b

\* lines 88-90: the day clamped to the target month's last day
addMonthsClamped(c, monthIndex) ==
  DateOfMonthIndex(c.y, monthIndex,
                   Min(c.d, Civil(DateOfMonthIndex(c.y, monthIndex + 1, 0)).d))

\* lines 85-87 on the civil date c
addMonthsCivil(c, months) == addMonthsClamped(c, (c.m - 1) + months)

addMonths(date, months) == addMonthsCivil(Civil(date), months)

addDays(date, days) == date + days

\* Math.max(0, Math.round((endUtc - startUtc) / MS_PER_DAY))
daysBetween(start, end) == Max(0, end - start)

RECURSIVE monthsBetweenLoop(_, _, _)
monthsBetweenLoop(cursor, end, months) ==
  IF cursor < end /\ months < 600
  THEN monthsBetweenLoop(addMonths(cursor, 1), end, months + 1)
  ELSE IF cursor # end THEN -1 ELSE months

\* the month count, or -1 for null
monthsBetween(start, end) == monthsBetweenLoop(start, end, 0)

\* termMonths -1 is null; the result is -1 for null
resolvePeriodMonths(termMonths, periodCount) ==
  IF termMonths = -1 \/ termMonths = 0 \/ periodCount <= 0 THEN -1
  ELSE IF termMonths % periodCount = 0 THEN termMonths \div periodCount
  ELSE -1

(***************************************************************************)
(* Cells, series and the schedule builder (first copy: event-based)        *)
(*                                                                         *)
(* A cell that may hold a number is <<>> (no number) or <<n>>.             *)
(* The maturity cell is [kind |-> "date", date |-> d] (a Date, an Excel    *)
(* date code or a string new Date() parses), [kind |-> "term",             *)
(* amount |-> n, unit |-> u] (a text "n u", which new Date() rejects       *)
(* because a word follows the number) or [kind |-> "other"].               *)
(***************************************************************************)
IsNum(v) == v # <<>>

Num(v) == v[1]

\* series.rateValues[i] with i counted from 1; past the end it is undefined
At(values, i) == IF i \in DOMAIN values THEN values[i] ELSE <<>>

\* toDate(series.maturity): <<d>>, or <<>> for null
toDate(cell) == IF cell.kind = "date" THEN <<cell.date>> ELSE <<>>

\* unit.startsWith('mies') || unit.startsWith('m.') and 'rok', 'lat'
MonthUnits == {"mies", "miesiecy", "m."}

YearUnits == {"rok", "lat", "lata"}

\* parseMaturityMonths: the months, or -1 for null
parseMaturityMonths(cell) ==
  IF cell.kind # "term" THEN -1
  ELSE IF cell.amount <= 0 THEN -1
  ELSE IF cell.unit \in MonthUnits THEN cell.amount
  ELSE IF cell.unit \in YearUnits THEN cell.amount * 12
  ELSE -1

RECURSIVE resolvePurchaseDateScan(_, _, _)
resolvePurchaseDateScan(cursor, end, purchaseDay) ==
  IF cursor <= end
  THEN IF Civil(cursor).d = purchaseDay THEN <<cursor>>
       ELSE resolvePurchaseDateScan(cursor + 1, end, purchaseDay)
  ELSE <<>>

scansFromNextDay(saleStart, saleEnd, purchaseDay) ==
  IF purchaseDay = 0 \/ purchaseDay < 1 \/ purchaseDay > 31 THEN saleStart
  ELSE LET found == resolvePurchaseDateScan(saleStart + 1, saleEnd, purchaseDay)
       IN IF found # <<>> THEN found[1] ELSE saleStart

\* purchaseDay 0 is both undefined and the number 0: !purchaseDay holds of both
resolvePurchaseDate(saleStart, saleEnd, purchaseDay) ==
  IF purchaseDay = 0 \/ purchaseDay < 1 \/ purchaseDay > 31 THEN saleStart
  ELSE LET found == resolvePurchaseDateScan(saleStart, saleEnd, purchaseDay)
       IN IF found # <<>> THEN found[1] ELSE saleStart

\* <<d>>, or <<>> for null
getBuyoutDate(series, purchaseDate) ==
  LET maturityDate == toDate(series.maturity)
      termMonths == parseMaturityMonths(series.maturity)
  IN IF maturityDate # <<>> THEN maturityDate
     ELSE IF termMonths = -1 THEN <<>>
     ELSE <<addMonths(purchaseDate, termMonths)>>

\* Math.round(value * 100) / 100 of the value num/den thousandths, den > 0:
\* Math.round rounds a half up
round2(num, den) == 10 * ((num + 5 * den) \div (10 * den))

\* the denominator of base * rate * (days / 365) in thousandths
AccrualDen == 365 * 1000

\* round2(base + base * rate * (days / 365)): base is split into whole
\* hundredths and a rest so that the numerator stays within 32 bits
AccrueRounded(value, base, rate, days) ==
  LET q == value \div 10
      rest == value - 10 * q
  IN 10 * q + round2(rest * AccrualDen + base * rate * days, AccrualDen)

RECURSIVE buildPeriodsMonths(_, _, _, _, _)
\* lines 507-513: period i ends at next, and the cursor moves there
monthsPeriod(cursor, next, end, periodCount, periodMonths, i) ==
  <<[start |-> cursor, end |-> next]>>
  \o buildPeriodsMonths(next, end, periodCount, periodMonths, i + 1)

buildPeriodsMonths(cursor, end, periodCount, periodMonths, i) ==
  IF i >= periodCount THEN <<>>
  ELSE monthsPeriod(cursor,
                    IF i = periodCount - 1 THEN end
                    ELSE addMonths(cursor, periodMonths),
                    end, periodCount, periodMonths, i)

RECURSIVE buildPeriodsDays(_, _, _, _, _, _)
\* lines 519-526: period i ends at next, and the cursor moves there
daysPeriod(cursor, next, end, periodCount, baseDays, remainder, i) ==
  <<[start |-> cursor, end |-> next]>>
  \o buildPeriodsDays(next, end, periodCount, baseDays, remainder, i + 1)

buildPeriodsDays(cursor, end, periodCount, baseDays, remainder, i) ==
  IF i >= periodCount THEN <<>>
  ELSE daysPeriod(cursor,
                  IF i = periodCount - 1 THEN end
                  ELSE addDays(cursor,
                               baseDays + (IF i < remainder THEN 1 ELSE 0)),
                  end, periodCount, baseDays, remainder, i)

\* periodMonths -1 is null (0 is falsy too)
buildPeriods(start, end, periodCount, periodMonths) ==
  IF periodCount <= 0 THEN <<>>
  ELSE IF periodMonths > 0
  THEN buildPeriodsMonths(start, end, periodCount, periodMonths, 0)
  ELSE LET totalDays == daysBetween(start, end)
       IN buildPeriodsDays(start, end, periodCount, totalDays \div periodCount,
                           totalDays % periodCount, 0)

NullSchedule == [isNull |-> TRUE, values |-> <<>>]

\* the loop of lines 591-610 from period i on, currentValue being the running
\* value
RECURSIVE accruePeriods(_, _, _, _)
\* lines 606-608: the point of period i, and nextValue becomes the running value
accruedPoint(series, periods, i, nextValue) ==
  <<[date |-> periods[i].end, price |-> nextValue]>>
  \o accruePeriods(series, periods, i + 1, nextValue)

accruesGaps(series, periods, i, currentValue) ==
  IF i > Len(periods) THEN <<>>
  ELSE IF ~IsNum(At(series.rateValues, i)) /\ ~IsNum(At(series.interestValues, i))
  THEN accruedPoint(series, periods, i, currentValue)
  ELSE accruedPoint(
         series, periods, i,
         IF IsNum(At(series.interestValues, i))
         THEN round2(currentValue + Num(At(series.interestValues, i)), 1)
         ELSE AccrueRounded(currentValue, currentValue,
                            Num(At(series.rateValues, i)),
                            daysBetween(periods[i].start, periods[i].end)))

accruePeriods(series, periods, i, currentValue) ==
  IF i > Len(periods) THEN <<>>
  ELSE IF ~IsNum(At(series.rateValues, i)) /\ ~IsNum(At(series.interestValues, i))
  THEN accruePeriods(series, periods, i + 1, currentValue)
  ELSE accruedPoint(
         series, periods, i,
         IF IsNum(At(series.interestValues, i))
         THEN round2(currentValue + Num(At(series.interestValues, i)), 1)
         ELSE AccrueRounded(currentValue, currentValue,
                            Num(At(series.rateValues, i)),
                            daysBetween(periods[i].start, periods[i].end)))

OtsType == <<"O", "T", "S">>

prefersInterest(series, hasDay, first, buyoutDate, byRate) ==
  LET rate == At(series.rateValues, 1)
      interest == At(series.interestValues, 1)
  IN IF IsNum(interest)
     THEN [isNull |-> FALSE,
           values |-> <<first,
                        [date |-> buyoutDate,
                         price |-> round2(series.emissionPrice + Num(interest), 1)]>>]
     ELSE IF IsNum(rate)
     THEN [isNull |-> FALSE,
           values |-> <<first, [date |-> buyoutDate, price |-> byRate]>>]
     ELSE NullSchedule

\* lines 543-569, the OTS branch: first is the point at the purchase date,
\* byRate the emission price accrued over the whole term
scheduleOts(series, hasDay, first, buyoutDate, byRate) ==
  LET rate == At(series.rateValues, 1)
      interest == At(series.interestValues, 1)
  IN IF hasDay /\ IsNum(rate)
     THEN [isNull |-> FALSE,
           values |-> <<first, [date |-> buyoutDate, price |-> byRate]>>]
     ELSE IF IsNum(interest)
     THEN [isNull |-> FALSE,
           values |-> <<first,
                        [date |-> buyoutDate,
                         price |-> round2(series.emissionPrice + Num(interest), 1)]>>]
     ELSE IF IsNum(rate)
     THEN [isNull |-> FALSE,
           values |-> <<first, [date |-> buyoutDate, price |-> byRate]>>]
     ELSE NullSchedule

\* lines 583-612: the points of the periods
scheduleOfPeriods(series, first, periods) ==
  IF Len(periods) = 0 THEN NullSchedule
  ELSE [isNull |-> FALSE,
        values |-> <<first>> \o accruePeriods(series, periods, 1,
                                              series.emissionPrice)]

\* lines 579-580: the term in months, from the maturity cell or the dates
termMonthsOf(parsed, purchaseDate, buyoutDate) ==
  IF parsed # -1 THEN parsed ELSE monthsBetween(purchaseDate, buyoutDate)

\* lines 571-582, the branch of the other bond types
schedulePeriodic(series, first, purchaseDate, buyoutDate, periodCount) ==
  IF periodCount <= 0 THEN NullSchedule
  ELSE scheduleOfPeriods(
         series, first,
         buildPeriods(purchaseDate, buyoutDate, periodCount,
                      resolvePeriodMonths(
                        termMonthsOf(parseMaturityMonths(series.maturity),
                                     purchaseDate, buyoutDate),
                        periodCount)))

\* lines 543-612 once the purchase and buyout dates are known
scheduleBetween(series, hasDay, purchaseDate, buyoutDate) ==
  LET first == [date |-> purchaseDate, price |-> round2(series.emissionPrice, 1)]
  IN IF series.bondType = OtsType
     THEN scheduleOts(series, hasDay, first, buyoutDate,
                      AccrueRounded(series.emissionPrice, series.emissionPrice,
                                    Num(At(series.rateValues, 1)),
                                    daysBetween(purchaseDate, buyoutDate)))
     ELSE schedulePeriodic(series, first, purchaseDate, buyoutDate,
                           Max(Len(series.rateValues),
                               Len(series.interestValues)))

\* lines 539-541: no buyout date, no schedule; buyout is <<date>> or <<>>
scheduleFrom(series, hasDay, purchaseDate, buyout) ==
  IF buyout = <<>> THEN NullSchedule
  ELSE scheduleBetween(series, hasDay, purchaseDate, buyout[1])

\* line 538 and what follows, the purchase date resolved
scheduleAt(series, hasDay, purchaseDate) ==
  scheduleFrom(series, hasDay, purchaseDate, getBuyoutDate(series, purchaseDate))

\* buildScheduledValues(series, purchaseDay), lines 532-613; hasDay is
\* purchaseDay !== undefined
buildScheduledValues(series, hasDay, purchaseDay) ==
  scheduleAt(series, hasDay,
             resolvePurchaseDate(series.saleStart, series.saleEnd, purchaseDay))

(***************************************************************************)
(* The schedule builder of the second copy (daily-interpolated), lines     *)
(* 1489-1600.  valuesByDate is the set of the Map's values: the Map holds  *)
(* one value per key formatDateISO(date).                                  *)
(***************************************************************************)
\* getFullYear(), getMonth() + 1 and getDate() of a local date
formatDateISO(date) == Civil(date)

\* line 1503: valuesByDate.set(formatDateISO(date), { date, price })
addValue(valuesByDate, date, price) ==
  {v \in valuesByDate : formatDateISO(v.date) # formatDateISO(date)}
  \cup {[date |-> date, price |-> price]}

addValueWhenever(valuesByDate, today, date, price) ==
  addValue(valuesByDate, date, price)

\* lines 1505-1509
addValueIfPast(valuesByDate, today, date, price) ==
  IF date <= today THEN addValue(valuesByDate, date, price) ELSE valuesByDate

\* addValue for each of the daily values of one loop, which are one per day
addValues(valuesByDate, daily) ==
  {v \in valuesByDate :
     formatDateISO(v.date) \notin {formatDateISO(w.date) : w \in daily}}
  \cup daily

\* round2(currentValue + interest * (dayOffset / periodDays)), periodDays > 0
InterpolateRounded(currentValue, interest, dayOffset, periodDays) ==
  10 * (currentValue \div 10)
  + round2((currentValue % 10) * periodDays + interest * dayOffset, periodDays)

\* lines 1535-1537 and 1587-1589: the interest amount is the explicit amount,
\* or currentValue * rate * (periodDays / 365), of which the days so far
\* have dayOffset / periodDays
dailyPrice(currentValue, byInterest, rate, interest, dayOffset, periodDays) ==
  IF byInterest
  THEN InterpolateRounded(currentValue, Num(interest), dayOffset, periodDays)
  ELSE AccrueRounded(currentValue, currentValue, Num(rate), dayOffset)

\* the loops of lines 1533-1539 and 1585-1591
dailyValues(start, dailyDays, currentValue, byInterest, rate, interest, periodDays) ==
  {[date |-> addDays(start, dayOffset),
    price |-> dailyPrice(currentValue, byInterest, rate, interest, dayOffset,
                         periodDays)] : dayOffset \in 1..dailyDays}

\* Array.from(valuesByDate.values()).sort(by date), lines 1597-1599
sortByDate(valuesByDate) ==
  LET dates == {v.date : v \in valuesByDate}
      lo == CHOOSE d \in dates : \A e \in dates : d <= e
      hi == CHOOSE d \in dates : \A e \in dates : d >= e
      ordered == SelectSeq([k \in 1..(hi - lo + 1) |-> lo + k - 1],
                           LAMBDA d : d \in dates)
  IN IF valuesByDate = {} THEN <<>>
     ELSE [k \in 1..Len(ordered) |->
             CHOOSE v \in valuesByDate : v.date = ordered[k]]

\* lines 1511-1545, the OTS branch; byInterest says that the explicit amount
\* is the interest amount (lines 1515-1523)
dailyOtsValues(series, today, purchaseDate, buyoutDate, byInterest, totalDays) ==
  addValues(
    addValueIfPast({}, today, purchaseDate, round2(series.emissionPrice, 1)),
    IF totalDays > 0
    THEN dailyValues(purchaseDate,
                     daysBetween(purchaseDate, Min(today, buyoutDate)),
                     series.emissionPrice, byInterest,
                     At(series.rateValues, 1), At(series.interestValues, 1),
                     totalDays)
    ELSE {})

dailyOts(series, hasDay, today, purchaseDate, buyoutDate) ==
  IF ~IsNum(At(series.rateValues, 1)) /\ ~IsNum(At(series.interestValues, 1))
  THEN NullSchedule
  ELSE [isNull |-> FALSE,
        values |-> sortByDate(
          dailyOtsValues(series, today, purchaseDate, buyoutDate,
                         ~(hasDay /\ IsNum(At(series.rateValues, 1)))
                         /\ IsNum(At(series.interestValues, 1)),
                         daysBetween(purchaseDate, buyoutDate)))]

RECURSIVE dailyPeriods(_, _, _, _, _, _)
\* lines 1581-1594 for period i: its days up to today, its end if past, and
\* nextValue becomes the running value
dailyPeriod(series, today, periods, i, currentValue, valuesByDate, periodDays, nextValue) ==
  dailyPeriods(
    series, today, periods, i + 1, nextValue,
    addValueIfPast(
      IF Min(today, periods[i].end) > periods[i].start /\ periodDays > 0
      THEN addValues(valuesByDate,
                     dailyValues(periods[i].start,
                                 daysBetween(periods[i].start,
                                             Min(today, periods[i].end)),
                                 currentValue,
                                 IsNum(At(series.interestValues, i)),
                                 At(series.rateValues, i),
                                 At(series.interestValues, i), periodDays))
      ELSE valuesByDate,
      today, periods[i].end, nextValue))

\* the loop of lines 1565-1595 from period i on
dailyPeriods(series, today, periods, i, currentValue, valuesByDate) ==
  IF i > Len(periods) THEN valuesByDate
  ELSE IF ~IsNum(At(series.rateValues, i)) /\ ~IsNum(At(series.interestValues, i))
  THEN dailyPeriods(series, today, periods, i + 1, currentValue, valuesByDate)
  ELSE dailyPeriod(
         series, today, periods, i, currentValue, valuesByDate,
         daysBetween(periods[i].start, periods[i].end),
         IF IsNum(At(series.interestValues, i))
         THEN round2(currentValue + Num(At(series.interestValues, i)), 1)
         ELSE AccrueRounded(currentValue, currentValue,
                            Num(At(series.rateValues, i)),
                            daysBetween(periods[i].start, periods[i].end)))

\* lines 1559-1599: the points of the periods
dailyOfPeriods(series, today, purchaseDate, periods) ==
  IF Len(periods) = 0 THEN NullSchedule
  ELSE [isNull |-> FALSE,
        values |-> sortByDate(
          dailyPeriods(series, today, periods, 1, series.emissionPrice,
                       addValueIfPast({}, today, purchaseDate,
                                      round2(series.emissionPrice, 1))))]

\* lines 1547-1558, the branch of the other bond types
dailyPeriodic(series, today, purchaseDate, buyoutDate, periodCount) ==
  IF periodCount <= 0 THEN NullSchedule
  ELSE dailyOfPeriods(
         series, today, purchaseDate,
         buildPeriods(purchaseDate, buyoutDate, periodCount,
                      resolvePeriodMonths(
                        termMonthsOf(parseMaturityMonths(series.maturity),
                                     purchaseDate, buyoutDate),
                        periodCount)))

\* lines 1495-1599 once the purchase date is known; buyout is <<date>> or <<>>
dailyFrom(series, hasDay, today, purchaseDate, buyout) ==
  IF buyout = <<>> THEN NullSchedule
  ELSE IF series.bondType = OtsType
  THEN dailyOts(series, hasDay, today, purchaseDate, buyout[1])
  ELSE dailyPeriodic(series, today, purchaseDate, buyout[1],
                     Max(Len(series.rateValues), Len(series.interestValues)))

dailyAt(series, hasDay, today, purchaseDate) ==
  dailyFrom(series, hasDay, today, purchaseDate,
            getBuyoutDate(series, purchaseDate))

\* buildScheduledValues(series, purchaseDay) of the second copy, lines
\* 1489-1600, today being toLocalDate(new Date())
buildDailyValues(series, hasDay, purchaseDay, today) ==
  dailyAt(series, hasDay, today,
          resolvePurchaseDate(series.saleStart, series.saleEnd, purchaseDay))

(***************************************************************************)
(* The world of the model: symbols, the published workbook, the accounts   *)
(***************************************************************************)
SymRor == <<"R","O","R","0","1","2","7",".","1","9">>

SymRorRaw == <<" ","r","o","r","0","1","2","7",".","1","9">>

SymOts == <<"O","T","S","0","4","2","4">>

SymEdo == <<"E","D","O","0","1","3","4">>

SymAapl == <<"A","A","P","L">>

\* a series of a sheet without a rate header, a series its sheet does not
\* list, a series whose maturity cell says nothing
SymTos == <<"T","O","S","0","1","2","5">>

SymRorGone == <<"R","O","R","0","9","9","9">>

SymCoi == <<"C","O","I","0","1","2","8">>

SeriesRor ==
  [seriesId |-> <<"R","O","R","0","1","2","7">>, bondType |-> <<"R","O","R">>,
   saleStart |-> DateOf(2024, 1, 2), saleEnd |-> DateOf(2024, 1, 31),
   emissionPrice |-> 100000,
   maturity |-> [kind |-> "term", amount |-> 12, unit |-> "miesiecy"],
   rateValues |-> << <<20>> >>, interestValues |-> <<>>]

SeriesOts ==
  [seriesId |-> <<"O","T","S","0","4","2","4">>, bondType |-> OtsType,
   saleStart |-> DateOf(2024, 4, 1), saleEnd |-> DateOf(2024, 4, 30),
   emissionPrice |-> 100000,
   maturity |-> [kind |-> "term", amount |-> 3, unit |-> "miesiecy"],
   rateValues |-> << <<30>> >>, interestValues |-> << <<>> >>]

SeriesCoi ==
  [seriesId |-> SymCoi, bondType |-> <<"C","O","I">>,
   saleStart |-> DateOf(2024, 1, 2), saleEnd |-> DateOf(2024, 1, 31),
   emissionPrice |-> 100000,
   maturity |-> [kind |-> "other"],
   rateValues |-> << <<20>> >>, interestValues |-> <<>>]

\* The workbook the source publishes: per sheet name, whether getSheetMeta
\* finds a layout (a rate header), and the series parseSeriesRow accepts.
\* There is no sheet EDO.
Workbook ==
  [sheets |-> {<<"R","O","R">>, OtsType, <<"T","O","S">>, <<"C","O","I">>},
   layout |-> {<<"R","O","R">>, OtsType, <<"C","O","I">>},
   series |-> {SeriesRor, SeriesOts, SeriesCoi}]

\* ctx.api.accounts.getAll() on success
Accounts == <<"a1", "a2">>

\* what the accounts hold at startup, per account in the host's order
InitialHoldings == [a1 |-> <<SymRor, SymAapl>>, a2 |-> <<SymRorRaw, SymEdo>>]

\* accounts that hold only bonds the workbook gives no schedule for
UnusableHoldings == [a1 |-> <<SymTos, SymRorGone>>, a2 |-> <<SymCoi, SymTos>>]

\* what the user may buy while the engine runs
LaterHolding == SymOts

(***************************************************************************)
(* State                                                                   *)
(***************************************************************************)
VARIABLES
  \* module-level caches (lines 36-38, 376)
  workbookPromise,          \* "null", "pending", "resolved" or "rejected"
  wbWaiters,                \* the callers awaiting the pending workbookPromise
  sheetSeriesCache,         \* the bond types whose series map is cached
  opisMapPromise,           \* "null" or "resolved"
  fetching,                 \* the workbook downloads in flight on the network
  \* the closure of startPolishBondTracking (lines 707-715)
  processedSymbols, skippedSymbols, metadataUpdatedSymbols, inFlightSymbols,
  suppressPortfolioRefresh,
  suppressTimeout,          \* -1 for null, else the ms left on the handle's timer
  refreshPromise,           \* 0 for null, else the pass whose promise it is
  unlisten,                 \* TRUE when the unlisten function is held
  disabled,
  \* where the asynchronous functions stand
  setupPc,                  \* "subscribing", "awaitRefresh" or "done"
  passes,                   \* per pass slot: the async body of lines 732-851
  callers,                  \* other callers of getWorkbook: "idle", "waiting", "ok", "error"
  \* the host and the clock
  holdings,                 \* per account the symbols held, in the host's order
  quoteStore,               \* the recorded quotes
  profiles,                 \* per symbol the asset profile, or NONE
  outstanding,              \* the quotes.update requests not yet answered
  listener,                 \* the host's subscription: "none", "active", "released"
  pendingEvents,            \* portfolio-updated events emitted and not delivered
  timers,                   \* the ms left on each pending setTimeout
  tz,                       \* the sign of the local UTC offset: -1, 0 or 1
  failures,                 \* how many host or network calls have failed
  \* what an observer records
  elapsed,                  \* ms since the engine last started a batch of writes; -1: never
  logged,                   \* the lines the latest step logged
  io,                       \* the host or source call for a symbol the latest step made
  call,                     \* what the latest step called: by setup or by the event
                            \* handler, the pass running before, and the pass whose
                            \* promise refreshHoldings returned (0: it was not called)
  lastPass,                 \* the holdings read by the latest completed pass that
                            \* read any, and the quotes recorded when it completed;
                            \* NONE before
  calls,                    \* the refreshHoldings calls not yet completed: <<caller, pass>>
  outcome,                  \* what became of promises: rejections that nothing caught
  probe                     \* a function of the module applied on its own: its
                            \* input and, once applied, its result; NONE in the engine

vars == <<workbookPromise, wbWaiters, sheetSeriesCache, opisMapPromise, fetching,
          processedSymbols, skippedSymbols, metadataUpdatedSymbols,
          inFlightSymbols, suppressPortfolioRefresh, suppressTimeout,
          refreshPromise, unlisten, disabled, setupPc, passes, callers,
          holdings, quoteStore, profiles, outstanding, listener, pendingEvents,
          timers, tz, failures, elapsed, logged, io, call, lastPass, calls,
          outcome, probe>>

\* the state of the engine and of its host, which a function applied on its
\* own leaves alone
engineVars == <<workbookPromise, wbWaiters, sheetSeriesCache, opisMapPromise,
                fetching, processedSymbols, skippedSymbols,
                metadataUpdatedSymbols, inFlightSymbols,
                suppressPortfolioRefresh, suppressTimeout, refreshPromise,
                unlisten, disabled, setupPc, passes, callers, holdings,
                quoteStore, profiles, outstanding, listener, pendingEvents,
                timers, tz, failures, elapsed, logged, io, call, lastPass,
                calls, outcome>>

moduleVars == <<workbookPromise, wbWaiters, sheetSeriesCache, opisMapPromise,
                fetching>>

setVars == <<processedSymbols, skippedSymbols, metadataUpdatedSymbols,
             inFlightSymbols>>

timerVars == <<suppressPortfolioRefresh, suppressTimeout, timers, elapsed>>

subVars == <<unlisten, disabled, listener>>

hostVars == <<holdings, quoteStore, profiles, outstanding, pendingEvents>>

(***************************************************************************)
(* Bounds                                                                  *)
(***************************************************************************)
\* pass slots: the code keeps one pass at a time, the model has room for more
MaxPasses == 2

\* host and network calls that fail in one behaviour
MaxFailures == 2

\* portfolio-updated events emitted and not yet delivered
MaxPending == 1

\* other callers of getWorkbook
MaxCallers == 3

PassIds == 1..MaxPasses

CallerIds == 1..MaxCallers

\* failed: a call of the quote pipeline has failed for the symbol at hand;
\* seen: the holdings the pass has read, NONE before it reads them
IdlePass == [pc |-> "idle", symbols |-> <<>>, idx |-> 0, schedule |-> <<>>,
             quotes |-> <<>>, sent |-> 0, failed |-> FALSE, seen |-> NONE]

NoIo == [kind |-> "none", sym |-> <<>>]

NoCall == [by |-> "none", running |-> 0, got |-> 0]

(***************************************************************************)
(* Quotes                                                                  *)
(*                                                                         *)
(* An ISO date string YYYY-MM-DD is the record [y, m, d] of its numbers;   *)
(* the timestamp "<ISO>T00:00:00.000Z" is the record of its date, NONE     *)
(* standing for a missing or unparseable timestamp.  An id is              *)
(* [fmt, date, sym]: fmt "compact" for YYYYMMDD_<sym>, "iso" for an id     *)
(* holding YYYY-MM-DD, "opaque" for an id without a date.                  *)
(***************************************************************************)
\* new Date("<ISO>T00:00:00.000Z") as a local date: the instant is midnight
\* UTC, and west of Greenwich the local clock still shows the evening before
parseTimestamp(timestamp) ==
  LET utcDay == DateOf(timestamp.y, timestamp.m, timestamp.d)
  IN IF tz < 0 THEN utcDay - 1 ELSE utcDay

\* lines 420-433: the quote of a date string and a normalized symbol
quoteOf(dateISO, normalizedSymbol, price) ==
  [id |-> [fmt |-> "compact", date |-> dateISO, sym |-> normalizedSymbol],
   createdAt |-> dateISO,
   dataSource |-> "MANUAL",
   timestamp |-> dateISO,
   symbol |-> normalizedSymbol,
   open |-> price, high |-> price, low |-> price, close |-> price,
   adjclose |-> price, volume |-> 0, currency |-> "PLN"]

buildQuote(symbol, quoteDate, price) ==
  quoteOf(formatDateISO(quoteDate), normalizeSymbol(symbol), price)

dropsIdentity(base, existing) == base

\* lines 443-451: base with the identity of the existing quote, if any
withIdentityOf(base, existing) ==
  IF existing = NONE THEN base
  ELSE [base EXCEPT !.id = existing.id,
                    !.createdAt = existing.createdAt,
                    !.dataSource = existing.dataSource]

\* existing is NONE when there is none
buildQuotePayload(symbol, quoteDate, price, existing) ==
  withIdentityOf(buildQuote(symbol, quoteDate, price), existing)

Abs(x) == IF x < 0 THEN -x ELSE x

\* Math.abs(existingPrice - nextPrice) > 0.004
priceChanged(existing, nextPrice) == Abs(existing.adjclose - nextPrice) > 4

\* <<key>>, or <<>> for null
extractQuoteDateKey(quote) ==
  IF quote.timestamp # NONE
  THEN <<formatDateISO(parseTimestamp(quote.timestamp))>>
  ELSE IF quote.id.fmt \in {"iso", "compact"} THEN <<quote.id.date>>
  ELSE <<>>

\* ctx.api.quotes.getHistory(symbol): the recorded quotes of the symbol
getHistory(symbol) == {q \in quoteStore : q.symbol = symbol}

\* where the host lists a quote: by the day of its timestamp
listedAt(quote) ==
  IF quote.timestamp = NONE THEN -1
  ELSE DateOf(quote.timestamp.y, quote.timestamp.m, quote.timestamp.d)

\* the first of the quotes in the host's order (by timestamp), or NONE
firstListed(same) ==
  IF same = {} THEN NONE
  ELSE CHOOSE q \in same : \A r \in same : listedAt(q) <= listedAt(r)

\* existingByDate.get(dateKey) over a history (lines 804-809): the first
\* quote with the key; NONE when there is none
existingByDate(history, dateKey) ==
  firstListed({q \in history : extractQuoteDateKey(q) = <<dateKey>>})

\* lines 820-832: what a schedule point adds to quotesToAdd
diffPoint(symbol, value, existing) ==
  IF existing # NONE
  THEN IF priceChanged(existing, value.price)
       THEN <<buildQuotePayload(symbol, value.date, value.price, existing)>>
       ELSE <<>>
  ELSE <<buildQuotePayload(symbol, value.date, value.price, NONE)>>

\* lines 818-833: quotesToAdd from the schedule from point i on
RECURSIVE diffSchedule(_, _, _, _)
diffSchedule(symbol, scheduledValues, history, i) ==
  IF i > Len(scheduledValues) THEN <<>>
  ELSE diffPoint(symbol, scheduledValues[i],
                 existingByDate(history, formatDateISO(scheduledValues[i].date)))
       \o diffSchedule(symbol, scheduledValues, history, i + 1)

\* ctx.api.quotes.update(symbol, quote) on the host: an upsert by id
upsertQuote(store, quote) == {q \in store : q.id # quote.id} \cup {quote}

BATCH_SIZE == 50

\* a slice that runs to the end of the list
sliceToEnd(quotes, i) == SubSeq(quotes, i + 1, Len(quotes))

\* quotes.slice(i, i + batchSize) with i counted from 0
batchOf(quotes, i) == SubSeq(quotes, i + 1, Min(i + BATCH_SIZE, Len(quotes)))

(***************************************************************************)
(* Holdings, series lookup, profiles                                       *)
(***************************************************************************)
RECURSIVE flatSymbols(_, _)
\* holdingsByAccount.flat() mapped to normalized symbols, from account i on;
\* an account whose getHoldings failed gives [] (lines 619-623)
flatSymbols(i, failing) ==
  IF i > Len(Accounts) THEN <<>>
  ELSE LET own == IF Accounts[i] \in failing THEN <<>>
                  ELSE holdings[Accounts[i]]
       IN [k \in 1..Len(own) |-> normalizeSymbol(own[k])]
          \o flatSymbols(i + 1, failing)

RECURSIVE insertionOrder(_, _)
\* Array.from(new Set(...)) of the non-empty symbols (lines 627-635), from
\* position i on: a symbol is added where it first occurs
insertionOrder(seq, i) ==
  IF i > Len(seq) THEN <<>>
  ELSE (IF seq[i] = <<>> \/ \E j \in 1..(i - 1) : seq[j] = seq[i]
        THEN <<>> ELSE <<seq[i]>>)
       \o insertionOrder(seq, i + 1)

\* fetchHoldingSymbols without the Set of lines 627-635
symbolsWithoutSet(failing) == flatSymbols(1, failing)

\* the result of fetchHoldingSymbols when getAll succeeds and getHoldings
\* fails for the accounts in failing
fetchHoldingSymbols(failing) == insertionOrder(flatSymbols(1, failing), 1)

\* loadBondSeries on a fetched workbook: TRUE when it yields a map (the sheet
\* exists and getSheetMeta finds a layout), lines 343-352
sheetLoads(bondType) ==
  bondType \in Workbook.sheets /\ bondType \in Workbook.layout

\* seriesMap.get(seriesId) ?? null, the map being that of the bond type
seriesOf(seriesId, bondType) ==
  LET found == {r \in Workbook.series :
                  r.bondType = bondType /\ r.seriesId = seriesId}
  IN IF found = {} THEN NONE ELSE CHOOSE r \in found : TRUE

\* value.trim() of a profile field: "" is null or empty, " " is blank
trimmed(text) == IF text = " " THEN "" ELSE text

alwaysNamed(profile) == "generated"

\* lines 671-673: the generated name, or "" for undefined
nameToSend(profile) == IF trimmed(profile.name) = "" THEN "generated" ELSE ""

\* lines 684-689
needsUpdate(profile) ==
  \/ profile.assetClass = ""
  \/ profile.assetSubClass = ""
  \/ profile.countries = ""
  \/ trimmed(profile.countries) = ""
  \/ nameToSend(profile) # ""

\* the argument of updateProfile, lines 695-703
profilePayload(symbol, profile) ==
  [symbol |-> symbol,
   name |-> nameToSend(profile),
   sectors |-> profile.sectors,
   countries |-> IF trimmed(profile.countries) # "" THEN profile.countries
                 ELSE "Poland",
   notes |-> profile.notes,
   assetClass |-> IF trimmed(profile.assetClass) # "" THEN trimmed(profile.assetClass)
                  ELSE "Bonds",
   assetSubClass |-> IF trimmed(profile.assetSubClass) # ""
                     THEN trimmed(profile.assetSubClass) ELSE "Government"]

\* the host applying updateProfile: a payload without a name keeps the name
applyProfile(profile, payload) ==
  [name |-> IF payload.name = "" THEN profile.name ELSE payload.name,
   assetClass |-> payload.assetClass,
   assetSubClass |-> payload.assetSubClass,
   countries |-> payload.countries,
   sectors |-> payload.sectors,
   notes |-> payload.notes]

BlankProfile == [name |-> "", assetClass |-> "", assetSubClass |-> "",
                 countries |-> " ", sectors |-> "", notes |-> ""]

UserProfile == [name |-> "My bond", assetClass |-> "Bonds",
                assetSubClass |-> "Government", countries |-> "Poland",
                sectors |-> "", notes |-> "mine"]

\* every normalized symbol the accounts can hold
Symbols == {SymRor, SymOts, SymEdo, SymAapl, SymTos, SymRorGone, SymCoi}

looseReferences ==
  [symbol \in Symbols |->
     IF parseBondSymbol(symbol) # NONE THEN parseBondSymbol(symbol)
     ELSE [seriesId |-> symbol, bondType |-> SubSeq(symbol, 1, 3),
           hasDay |-> FALSE, purchaseDay |-> 0]]

\* parseBondSymbol is a pure function of the symbol: its results over the
\* symbols of this world, computed once
bondReferences == [symbol \in Symbols |-> parseBondSymbol(symbol)]

InitialProfiles ==
  [s \in Symbols |-> IF s = SymRor THEN BlankProfile
                     ELSE IF s = SymOts THEN UserProfile
                     ELSE NONE]

(***************************************************************************)
(* Initial state: startPolishBondTracking has run up to setup's first      *)
(* await (line 861), the subscription is being made                        *)
(***************************************************************************)
\* a quote an earlier run recorded for a schedule point, 0.003 higher
RecordedNear(point) == buildQuote(SymRor, point.date, point.price + 3)

\* a quote of another source on a schedule point, 0.01 higher
RecordedFar(point) ==
  [buildQuote(SymRor, point.date, point.price + 10)
     EXCEPT !.id = [fmt |-> "opaque", date |-> Civil(0), sym |-> <<"q","7">>],
            !.dataSource = "YAHOO"]

\* nothing recorded, or quotes on the first and the second point of a schedule
StoresOver(schedule) ==
  {{}, {RecordedNear(schedule[1]), RecordedFar(schedule[2])}}

InitialStores == StoresOver(buildScheduledValues(SeriesRor, TRUE, 19).values)

\* east and west of Greenwich (at UTC itself the engine behaves as east)
TimeZones == {-1, 1}

\* the engine with its host
EngineInit ==
  /\ workbookPromise = "null"
  /\ wbWaiters = {}
  /\ sheetSeriesCache = {}
  /\ opisMapPromise = "null"
  /\ fetching = 0
  /\ processedSymbols = {}
  /\ skippedSymbols = {}
  /\ metadataUpdatedSymbols = {}
  /\ inFlightSymbols = {}
  /\ suppressPortfolioRefresh = FALSE
  /\ suppressTimeout = -1
  /\ refreshPromise = 0
  /\ unlisten = FALSE
  /\ disabled = FALSE
  /\ setupPc = "subscribing"
  /\ passes = [p \in PassIds |-> IdlePass]
  /\ callers = [c \in CallerIds |-> "idle"]
  /\ holdings \in {InitialHoldings, UnusableHoldings}
  /\ quoteStore \in InitialStores
  /\ profiles = InitialProfiles
  /\ outstanding = {}
  /\ listener = "none"
  /\ pendingEvents = 0
  /\ timers = {}
  /\ tz \in TimeZones
  /\ failures = 0
  /\ elapsed = -1
  /\ logged = {}
  /\ io = NoIo
  /\ call = NoCall
  /\ lastPass = NONE
  /\ calls = {}
  /\ outcome = {}

Init == EngineInit /\ probe = NONE

(***************************************************************************)
(* Building blocks of the actions                                          *)
(***************************************************************************)
Line(level, what, sym) == [level |-> level, what |-> what, sym |-> sym]

\* ctx.api.logger.warn / info
Logs(lines) == logged' = lines

\* a host or network call may fail
MayFail(n) == failures + n <= MaxFailures /\ failures' = failures + n

NoFail == failures' = failures

\* a refreshHoldings without the guard of lines 729-731
neverJoinsRunningPass == FALSE

\* lines 729-731: a call while a pass is running returns that pass's promise
joinsRunningPass == refreshPromise # 0

FreeSlots == {p \in PassIds : passes[p].pc = "idle"}

\* refreshHoldings() called by setup or by the event handler, lines 728-857:
\* the async body runs up to its first await, accounts.getAll() of
\* fetchHoldingSymbols
refreshHoldings(by) ==
  IF joinsRunningPass
  THEN /\ call' = [by |-> by, running |-> refreshPromise, got |-> refreshPromise]
       /\ calls' = calls \cup {<<by, refreshPromise>>}
       /\ UNCHANGED <<passes, refreshPromise>>
  ELSE /\ FreeSlots # {}
       /\ LET p == CHOOSE q \in FreeSlots : \A r \in FreeSlots : q <= r
          IN /\ passes' = [passes EXCEPT ![p] = [IdlePass EXCEPT !.pc = "accounts"]]
             /\ refreshPromise' = p
             /\ call' = [by |-> by, running |-> refreshPromise, got |-> p]
             /\ calls' = calls \cup {<<by, p>>}

\* the pass's promise settles: .finally (lines 852-854) clears refreshPromise,
\* every call that returned this promise completes, and setup, if it awaits
\* it (line 871), returns
PassSettles(p) ==
  /\ refreshPromise' = 0
  /\ lastPass' = IF passes[p].seen = NONE THEN lastPass
                  ELSE [holdings |-> passes[p].seen, quotes |-> quoteStore]
  /\ calls' = {c \in calls : c[2] # p}
  /\ setupPc' = IF <<"setup", p>> \in calls THEN "done" ELSE setupPc

\* a suspendPortfolioRefresh without the clearTimeout of lines 719-721
suspendKeepingTimer(durationMs) ==
  /\ suppressPortfolioRefresh' = TRUE
  /\ timers' = timers \cup {durationMs}
  /\ suppressTimeout' = durationMs

\* lines 717-726
suspendPortfolioRefresh(durationMs) ==
  /\ suppressPortfolioRefresh' = TRUE
  /\ timers' = (IF suppressTimeout # -1 THEN timers \ {suppressTimeout} ELSE timers)
               \cup {durationMs}
  /\ suppressTimeout' = durationMs

SUPPRESS_MS == 1500

\* the clock advances in halves of the suppression window
TickMs == SUPPRESS_MS \div 2

(***************************************************************************)
(* setup, teardown, the portfolio-updated event, the clock                 *)
(***************************************************************************)
quiet == logged' = {} /\ io' = NoIo

subscribesRegardless ==
  /\ setupPc = "subscribing"
  /\ unlisten' = TRUE
  /\ listener' = "active"
  /\ setupPc' = "awaitRefresh"
  /\ refreshHoldings("setup")
  /\ quiet
  /\ UNCHANGED <<moduleVars, setVars, timerVars, disabled, callers, hostVars,
                 tz, probe, failures, lastPass, outcome>>

\* line 861 resolves: the host has registered the handler; lines 867-871
SubscribeOk ==
  /\ setupPc = "subscribing"
  /\ unlisten' = TRUE
  /\ IF disabled
     THEN /\ listener' = "released"
          /\ setupPc' = "done"
          /\ UNCHANGED <<passes, refreshPromise, call, calls>>
     ELSE /\ listener' = "active"
          /\ setupPc' = "awaitRefresh"
          /\ refreshHoldings("setup")
  /\ quiet
  /\ UNCHANGED <<moduleVars, setVars, timerVars, disabled, callers, hostVars,
                 tz, probe, failures, lastPass, outcome>>

\* line 861 rejects: caught at line 872
SubscribeFail ==
  /\ setupPc = "subscribing"
  /\ MayFail(1)
  /\ setupPc' = "done"
  /\ Logs({Line("warn", "start", <<>>)})
  /\ io' = NoIo
  /\ UNCHANGED <<moduleVars, setVars, timerVars, subVars, refreshPromise, passes,
                 callers, hostVars, tz, probe, call, lastPass, calls, outcome>>

\* the handler of lines 861-866
onUpdateComplete ==
  IF suppressPortfolioRefresh
  THEN /\ UNCHANGED <<passes, refreshPromise, calls>>
       /\ call' = [by |-> "event", running |-> refreshPromise, got |-> 0]
  ELSE refreshHoldings("event")

\* the host delivers a portfolio-updated event that something other than the
\* engine's writes caused
ExternalEvent ==
  /\ listener = "active"
  /\ onUpdateComplete
  /\ quiet
  /\ UNCHANGED <<moduleVars, setVars, timerVars, subVars, setupPc, lastPass, callers,
                 hostVars, tz, probe, failures, outcome>>

\* the host delivers the event a quote upsert caused
DeliverEvent ==
  /\ pendingEvents > 0
  /\ pendingEvents' = pendingEvents - 1
  /\ IF listener = "active" THEN onUpdateComplete
     ELSE UNCHANGED <<passes, refreshPromise, calls>> /\ call' = NoCall
  /\ quiet
  /\ UNCHANGED <<moduleVars, setVars, timerVars, subVars, setupPc, lastPass, callers,
                 holdings, quoteStore, profiles, outstanding, tz, probe, failures,
                 outcome>>

\* the function startPolishBondTracking returns, lines 880-890
Teardown ==
  /\ ~disabled
  /\ disabled' = TRUE
  /\ IF unlisten THEN listener' = "released" /\ unlisten' = FALSE
     ELSE UNCHANGED <<listener, unlisten>>
  /\ IF suppressTimeout # -1
     THEN timers' = timers \ {suppressTimeout} /\ suppressTimeout' = -1
     ELSE UNCHANGED <<timers, suppressTimeout>>
  /\ quiet
  /\ call' = NoCall
  /\ UNCHANGED <<moduleVars, setVars, suppressPortfolioRefresh, elapsed,
                 refreshPromise, setupPc, lastPass, passes, callers, hostVars, tz, probe,
                 failures, calls, outcome>>

\* TickMs pass; no timer is overdue
Tick ==
  /\ \A t \in timers : t >= TickMs
  /\ timers # {} \/ (elapsed # -1 /\ elapsed <= SUPPRESS_MS)
  /\ timers' = {t - TickMs : t \in timers}
  /\ suppressTimeout' = IF suppressTimeout = -1 THEN -1 ELSE suppressTimeout - TickMs
  /\ elapsed' = IF elapsed = -1 THEN -1 ELSE Min(elapsed + TickMs, SUPPRESS_MS + TickMs)
  /\ quiet
  /\ call' = NoCall
  /\ UNCHANGED <<moduleVars, setVars, suppressPortfolioRefresh, subVars,
                 refreshPromise, setupPc, lastPass, passes, callers, hostVars, tz, probe,
                 failures, calls, outcome>>

\* the callback of lines 722-725
TimerFire ==
  /\ 0 \in timers
  /\ timers' = timers \ {0}
  /\ suppressPortfolioRefresh' = FALSE
  /\ suppressTimeout' = -1
  /\ quiet
  /\ call' = NoCall
  /\ UNCHANGED <<moduleVars, setVars, elapsed, subVars, refreshPromise, setupPc, lastPass,
                 passes, callers, hostVars, tz, probe, failures, calls, outcome>>

\* the user buys another bond
HoldingsChange ==
  /\ \A a \in DOMAIN holdings : LaterHolding \notin Range(holdings[a])
  /\ holdings' = [holdings EXCEPT !.a2 = Append(@, LaterHolding)]
  /\ quiet
  /\ call' = NoCall
  /\ UNCHANGED <<moduleVars, setVars, timerVars, subVars, refreshPromise, setupPc, lastPass,
                 passes, callers, quoteStore, profiles, outstanding,
                 pendingEvents, tz, probe, failures, calls, outcome>>

(***************************************************************************)
(* getWorkbook, lines 220-245 (second copy: lines 1159-1185, where the     *)
(* download is two requests, the bonds page and then the file)             *)
(***************************************************************************)
\* a getWorkbook without the check of lines 221-223
neverCached == FALSE

\* lines 221-223: a promise is cached, pending or settled
workbookCached == workbookPromise # "null"

\* getWorkbook() called by who: a cached promise is returned, else the
\* download starts and its promise is cached
getWorkbook(who) ==
  IF workbookCached
  THEN /\ wbWaiters' = IF workbookPromise = "pending" THEN wbWaiters \cup {who}
                       ELSE wbWaiters
       /\ UNCHANGED <<workbookPromise, fetching>>
  ELSE /\ workbookPromise' = "pending"
       /\ fetching' = fetching + 1
       /\ wbWaiters' = wbWaiters \cup {who}

\* what the caller gets at once: "ok" or "error" from a settled promise,
\* "wait" from a pending one
getWorkbookAnswer ==
  IF workbookCached /\ workbookPromise = "resolved" THEN "ok"
  ELSE IF workbookCached /\ workbookPromise = "rejected" THEN "error"
  ELSE "wait"

\* a getWorkbook without the catch of lines 241-243
keepsRejected == "rejected"

\* lines 241-243: the caller that started the download clears the cache when
\* it fails
afterFailedDownload == "null"

\* what a waiting caller or pass becomes when the download settles
settledCallers(answer) ==
  [c \in CallerIds |-> IF <<"caller", c>> \in wbWaiters THEN answer ELSE callers[c]]

settledPasses(pc) ==
  [p \in PassIds |-> IF <<"pass", p>> \in wbWaiters /\ passes[p].pc = "workbook"
                     THEN [passes[p] EXCEPT !.pc = pc] ELSE passes[p]]

\* the download and XLSX.read succeed (lines 228-233): the promise resolves
FetchOk ==
  /\ fetching > 0
  /\ fetching' = fetching - 1
  /\ workbookPromise' = "resolved"
  /\ wbWaiters' = {}
  /\ callers' = settledCallers("ok")
  /\ passes' = settledPasses("wbOk")
  /\ NoFail
  /\ quiet
  /\ call' = NoCall
  /\ UNCHANGED <<sheetSeriesCache, opisMapPromise, setVars, timerVars, subVars,
                 refreshPromise, setupPc, lastPass, hostVars, tz, probe, calls, outcome>>

\* the download fails, times out (line 226) or does not parse: the promise
\* rejects, and every caller awaiting it gets the error
FetchFail ==
  /\ fetching > 0
  /\ MayFail(1)
  /\ fetching' = fetching - 1
  /\ workbookPromise' = afterFailedDownload
  /\ wbWaiters' = {}
  /\ callers' = settledCallers("error")
  /\ passes' = settledPasses("wbErr")
  /\ quiet
  /\ call' = NoCall
  /\ UNCHANGED <<sheetSeriesCache, opisMapPromise, setVars, timerVars, subVars,
                 refreshPromise, setupPc, lastPass, hostVars, tz, probe, calls, outcome>>

\* some other code calls getWorkbook
CallGetWorkbook(c) ==
  /\ callers[c] = "idle"
  /\ getWorkbook(<<"caller", c>>)
  /\ callers' = [callers EXCEPT ![c] = IF getWorkbookAnswer = "wait" THEN "waiting"
                                       ELSE getWorkbookAnswer]
  /\ NoFail
  /\ quiet
  /\ call' = NoCall
  /\ UNCHANGED <<sheetSeriesCache, opisMapPromise, setVars, timerVars, subVars,
                 refreshPromise, setupPc, lastPass, passes, hostVars, tz, probe, calls,
                 outcome>>

\* that code takes the workbook or the error and goes on
CallerReturns(c) ==
  /\ callers[c] \in {"ok", "error"}
  /\ callers' = [callers EXCEPT ![c] = "idle"]
  /\ NoFail
  /\ quiet
  /\ call' = NoCall
  /\ UNCHANGED <<moduleVars, setVars, timerVars, subVars, refreshPromise, setupPc, lastPass,
                 passes, hostVars, tz, probe, calls, outcome>>

(***************************************************************************)
(* A refresh pass: the async body of lines 732-851                         *)
(***************************************************************************)
Running(p) == passes[p].pc # "idle"

\* the symbol the pass is working on
Sym(p) == passes[p].symbols[passes[p].idx]

\* for (const symbol of symbols): on to the next symbol
NextSymbol(p) ==
  passes' = [passes EXCEPT ![p] = [IdlePass EXCEPT !.pc = "loop",
                                                   !.symbols = passes[p].symbols,
                                                   !.idx = passes[p].idx + 1,
                                                   !.seen = passes[p].seen]]

\* the async body returns: its promise resolves
PassReturns(p) ==
  /\ passes' = [passes EXCEPT ![p] = IdlePass]
  /\ PassSettles(p)
  /\ UNCHANGED outcome

\* an exception leaves the async body: its promise rejects.  setup awaits it
\* inside its try and logs (lines 871-875); the event handler's void call
\* leaves the rejection unhandled
PassRejects(p) ==
  /\ passes' = [passes EXCEPT ![p] = IdlePass]
  /\ PassSettles(p)
  /\ outcome' = outcome \cup {"refreshHoldings rejected"}

\* accounts.getAll() resolves (line 616); getHoldings is called per account
AccountsOk(p) ==
  /\ passes[p].pc = "accounts"
  /\ passes' = [passes EXCEPT ![p].pc = "holdings"]
  /\ NoFail
  /\ quiet
  /\ call' = NoCall
  /\ UNCHANGED <<moduleVars, setVars, timerVars, subVars, refreshPromise, setupPc, lastPass,
                 callers, hostVars, tz, probe, calls, outcome>>

\* what the catch of lines 736-740 does with a failure of fetchHoldingSymbols
holdingsCatch == "log"

\* accounts.getAll() rejects: fetchHoldingSymbols throws
AccountsFail(p) ==
  /\ passes[p].pc = "accounts"
  /\ MayFail(1)
  /\ IF holdingsCatch = "log"
     THEN PassReturns(p) /\ Logs({Line("warn", "holdings", <<>>)})
     ELSE PassRejects(p) /\ Logs({})
  /\ io' = NoIo
  /\ call' = NoCall
  /\ UNCHANGED <<moduleVars, setVars, timerVars, subVars, callers, hostVars, tz, probe>>

\* Promise.all of line 617 resolves, getHoldings having failed for the
\* accounts in failing; the loop of line 742 starts
HoldingsDone(p, failing) ==
  /\ passes[p].pc = "holdings"
  /\ MayFail(Cardinality(failing))
  /\ passes' = [passes EXCEPT ![p].pc = "loop",
                              ![p].symbols = fetchHoldingSymbols(failing),
                              ![p].idx = 1,
                              ![p].seen = holdings]
  /\ quiet
  /\ call' = NoCall
  /\ UNCHANGED <<moduleVars, setVars, timerVars, subVars, refreshPromise, setupPc, lastPass,
                 callers, hostVars, tz, probe, calls, outcome>>

\* the loop without the check of lines 746-748
forgetsSkipped(symbol) ==
  \/ symbol \in processedSymbols
  \/ symbol \in inFlightSymbols

\* the loop without the check of lines 743-745
forgetsProcessed(symbol) ==
  \/ symbol \in skippedSymbols
  \/ symbol \in inFlightSymbols

\* lines 743-751: the symbol is not to be looked at again
alreadyHandled(symbol) ==
  \/ symbol \in processedSymbols
  \/ symbol \in skippedSymbols
  \/ symbol \in inFlightSymbols

\* the top of the loop, lines 742-759: the pass ends, or skips the symbol, or
\* marks it in flight and calls getBondSeries, which (lines 338-343) answers
\* from sheetSeriesCache or awaits getWorkbook (lines 220-245)
LoopStep(p) ==
  /\ passes[p].pc = "loop"
  /\ NoFail
  /\ Logs({})
  /\ call' = NoCall
  /\ IF passes[p].idx > Len(passes[p].symbols)
     THEN /\ PassReturns(p)
          /\ io' = NoIo
          /\ UNCHANGED <<moduleVars, inFlightSymbols>>
     ELSE /\ UNCHANGED <<refreshPromise, calls, setupPc, lastPass, outcome>>
          /\ IF alreadyHandled(Sym(p)) \/ bondReferences[Sym(p)] = NONE
             THEN /\ NextSymbol(p)
                  /\ io' = NoIo
                  /\ UNCHANGED <<moduleVars, inFlightSymbols>>
             ELSE /\ inFlightSymbols' = inFlightSymbols \cup {Sym(p)}
                  /\ io' = [kind |-> "series", sym |-> Sym(p)]
                  /\ UNCHANGED <<sheetSeriesCache, opisMapPromise>>
                  /\ IF bondReferences[Sym(p)].bondType \in sheetSeriesCache
                     THEN /\ passes' = [passes EXCEPT ![p].pc = "wbOk"]
                          /\ UNCHANGED <<workbookPromise, wbWaiters, fetching>>
                     ELSE /\ getWorkbook(<<"pass", p>>)
                          /\ passes' = [passes EXCEPT ![p].pc =
                                          IF getWorkbookAnswer = "ok" THEN "wbOk"
                                          ELSE IF getWorkbookAnswer = "error"
                                          THEN "wbErr" ELSE "workbook"]
  /\ UNCHANGED <<processedSymbols, skippedSymbols, metadataUpdatedSymbols,
                 timerVars, subVars, callers, hostVars, tz, probe>>

\* lines 760-768 and 774-782 without skippedSymbols.add
warnsWithoutSkipping(p, what) ==
  /\ Logs({Line("warn", what, Sym(p))})
  /\ inFlightSymbols' = inFlightSymbols \ {Sym(p)}
  /\ NextSymbol(p)
  /\ UNCHANGED <<processedSymbols, skippedSymbols, metadataUpdatedSymbols>>

\* lines 760-768 and 774-782 with the finally of line 849: warn once, mark
\* skipped, leave the in-flight set
MarkSkipped(p, what) ==
  /\ IF Sym(p) \notin skippedSymbols
     THEN /\ Logs({Line("warn", what, Sym(p))})
          /\ skippedSymbols' = skippedSymbols \cup {Sym(p)}
     ELSE Logs({}) /\ UNCHANGED skippedSymbols
  /\ inFlightSymbols' = inFlightSymbols \ {Sym(p)}
  /\ NextSymbol(p)
  /\ UNCHANGED <<processedSymbols, metadataUpdatedSymbols>>

\* the end of a symbol without processedSymbols.add of line 844
LeavesUnprocessed(p) ==
  /\ inFlightSymbols' = inFlightSymbols \ {Sym(p)}
  /\ NextSymbol(p)
  /\ UNCHANGED <<processedSymbols, skippedSymbols, metadataUpdatedSymbols>>

\* lines 840-844 without the finally of line 849
processedStaysInFlight(p) ==
  /\ processedSymbols' = processedSymbols \cup {Sym(p)}
  /\ NextSymbol(p)
  /\ UNCHANGED <<inFlightSymbols, skippedSymbols, metadataUpdatedSymbols>>

\* lines 840-844 with the finally of line 849
MarkProcessed(p) ==
  /\ processedSymbols' = processedSymbols \cup {Sym(p)}
  /\ inFlightSymbols' = inFlightSymbols \ {Sym(p)}
  /\ NextSymbol(p)
  /\ UNCHANGED <<skippedSymbols, metadataUpdatedSymbols>>

\* a catch that throws the exception again
catchRethrows == "throw"

\* what the catch of lines 845-847 does with an exception of the try block
symbolCatch == "log"

errorLeavesInFlight(p, lines) ==
  /\ UNCHANGED <<inFlightSymbols, processedSymbols, skippedSymbols,
                 metadataUpdatedSymbols>>
  /\ Logs(lines \cup {Line("warn", "update", Sym(p))})
  /\ NextSymbol(p)
  /\ UNCHANGED <<refreshPromise, calls, setupPc, lastPass, outcome>>

\* an exception reaches the catch of line 845; the finally of line 849 runs
SymbolError(p, lines) ==
  /\ inFlightSymbols' = inFlightSymbols \ {Sym(p)}
  /\ UNCHANGED <<processedSymbols, skippedSymbols, metadataUpdatedSymbols>>
  /\ IF symbolCatch = "log"
     THEN /\ Logs(lines \cup {Line("warn", "update", Sym(p))})
          /\ NextSymbol(p)
          /\ UNCHANGED <<refreshPromise, calls, setupPc, lastPass, outcome>>
     ELSE /\ Logs(lines)
          /\ PassRejects(p)

\* line 799: getHistory is called next
ToHistory(p) ==
  /\ passes' = [passes EXCEPT ![p].pc = "history"]
  /\ io' = [kind |-> "history", sym |-> Sym(p)]

enrichesAgain(p, scheduledValues) ==
  IF scheduledValues.isNull \/ Len(scheduledValues.values) = 0
  THEN MarkSkipped(p, "noSchedule") /\ io' = NoIo
  ELSE /\ Logs({})
       /\ UNCHANGED setVars
       /\ passes' = [passes EXCEPT ![p].pc = "profile",
                                   ![p].schedule = scheduledValues.values]
       /\ io' = [kind |-> "profile", sym |-> Sym(p)]

\* lines 770-799: the schedule of the series is built
ScheduleBuilt(p, scheduledValues) ==
  IF scheduledValues.isNull \/ Len(scheduledValues.values) = 0
  THEN MarkSkipped(p, "noSchedule") /\ io' = NoIo
  ELSE /\ Logs({})
       /\ UNCHANGED setVars
       /\ passes' = [passes EXCEPT
                       ![p].pc = IF Sym(p) \notin metadataUpdatedSymbols
                                 THEN "profile" ELSE "history",
                       ![p].schedule = scheduledValues.values]
       /\ io' = [kind |-> IF Sym(p) \notin metadataUpdatedSymbols
                          THEN "profile" ELSE "history",
                 sym |-> Sym(p)]

\* the bond references of the symbols of the world
References == {bondReferences[s] : s \in Symbols} \ {NONE}

\* what buildScheduledValues can be called with in this world
ScheduleInputs ==
  {<<seriesOf(m.seriesId, m.bondType), m.hasDay, m.purchaseDay>> :
     m \in {r \in References : seriesOf(r.seriesId, r.bondType) # NONE}}

\* buildScheduledValues is a pure function: its results over the inputs of
\* this world, computed once
ScheduledValues ==
  [in \in ScheduleInputs |-> buildScheduledValues(in[1], in[2], in[3])]

\* lines 760-773: series is what getBondSeries returned for the reference m
SeriesFound(p, m, series) ==
  IF series = NONE
  THEN MarkSkipped(p, "noSeries") /\ io' = NoIo
  ELSE ScheduleBuilt(p, ScheduledValues[<<series, m.hasDay, m.purchaseDay>>])

\* lines 338-374 for the reference m once the workbook is there: the sheet's
\* series are cached if it yields any, and the series is looked up
SheetRead(p, m, loads) ==
  /\ sheetSeriesCache' = IF loads THEN sheetSeriesCache \cup {m.bondType}
                         ELSE sheetSeriesCache
  /\ SeriesFound(p, m, IF loads THEN seriesOf(m.seriesId, m.bondType) ELSE NONE)

\* the sheet of the reference m is cached or is read from the workbook
BondSeriesOf(p, m) ==
  SheetRead(p, m, m.bondType \in sheetSeriesCache \/ sheetLoads(m.bondType))

\* getBondSeries has answered (line 759): lines 760-799
SeriesLoaded(p) ==
  /\ passes[p].pc \in {"wbOk", "wbErr"}
  /\ NoFail
  /\ call' = NoCall
  /\ IF passes[p].pc = "wbErr"
     THEN /\ SymbolError(p, {})
          /\ io' = NoIo
          /\ UNCHANGED sheetSeriesCache
     ELSE /\ BondSeriesOf(p, bondReferences[Sym(p)])
          /\ UNCHANGED <<refreshPromise, calls, setupPc, lastPass, outcome>>
  /\ UNCHANGED <<workbookPromise, wbWaiters, opisMapPromise, fetching, timerVars,
                 subVars, callers, hostVars, tz, probe>>

\* getProfile resolves (line 659): lines 665-695, then 787 and 799 unless
\* updateProfile is called
ProfileOk(p) ==
  /\ passes[p].pc = "profile"
  /\ NoFail
  /\ call' = NoCall
  /\ Logs({})
  /\ LET profile == profiles[Sym(p)]
     IN IF profile = NONE
        THEN /\ metadataUpdatedSymbols' = metadataUpdatedSymbols \cup {Sym(p)}
             /\ ToHistory(p)
             /\ UNCHANGED opisMapPromise
        ELSE /\ opisMapPromise' = "resolved"
             /\ IF needsUpdate(profile)
                THEN /\ passes' = [passes EXCEPT ![p].pc = "updateProfile"]
                     /\ io' = [kind |-> "updateProfile", sym |-> Sym(p)]
                     /\ UNCHANGED metadataUpdatedSymbols
                ELSE /\ metadataUpdatedSymbols' = metadataUpdatedSymbols \cup {Sym(p)}
                     /\ ToHistory(p)
  /\ UNCHANGED <<workbookPromise, wbWaiters, sheetSeriesCache, fetching,
                 processedSymbols, skippedSymbols, inFlightSymbols, timerVars,
                 subVars, refreshPromise, setupPc, lastPass, callers, hostVars, tz, probe, calls,
                 outcome>>

\* getProfile rejects: caught at line 660, ensureBondMetadata returns, line 787
ProfileFail(p) ==
  /\ passes[p].pc = "profile"
  /\ MayFail(1)
  /\ call' = NoCall
  /\ Logs({Line("warn", "profile", Sym(p))})
  /\ metadataUpdatedSymbols' = metadataUpdatedSymbols \cup {Sym(p)}
  /\ ToHistory(p)
  /\ UNCHANGED <<moduleVars, processedSymbols, skippedSymbols, inFlightSymbols,
                 timerVars, subVars, refreshPromise, setupPc, lastPass, callers, hostVars,
                 tz, probe, calls, outcome>>

\* updateProfile resolves (line 695): line 787
UpdateProfileOk(p) ==
  /\ passes[p].pc = "updateProfile"
  /\ NoFail
  /\ call' = NoCall
  /\ Logs({})
  /\ profiles' = [profiles EXCEPT ![Sym(p)] =
                    applyProfile(@, profilePayload(Sym(p), @))]
  /\ metadataUpdatedSymbols' = metadataUpdatedSymbols \cup {Sym(p)}
  /\ ToHistory(p)
  /\ UNCHANGED <<moduleVars, processedSymbols, skippedSymbols, inFlightSymbols,
                 timerVars, subVars, refreshPromise, setupPc, lastPass, callers, holdings,
                 quoteStore, outstanding, pendingEvents, tz, probe, calls, outcome>>

metadataErrorEscapes(p) ==
  /\ passes[p].pc = "updateProfile"
  /\ MayFail(1)
  /\ call' = NoCall
  /\ io' = NoIo
  /\ SymbolError(p, {})
  /\ UNCHANGED <<moduleVars, timerVars, subVars, callers, hostVars, tz, probe>>

\* updateProfile rejects: caught at line 788
UpdateProfileFail(p) ==
  /\ passes[p].pc = "updateProfile"
  /\ MayFail(1)
  /\ call' = NoCall
  /\ Logs({Line("warn", "metadata", Sym(p))})
  /\ ToHistory(p)
  /\ UNCHANGED <<moduleVars, setVars, timerVars, subVars, refreshPromise, setupPc, lastPass,
                 callers, hostVars, tz, probe, calls, outcome>>

\* the requests of one chunk, lines 644-647: one quotes.update per quote,
\* all started before any is answered
requestsOf(p, batch) ==
  {[pass |-> p, quote |-> batch[k], live |-> TRUE] : k \in 1..Len(batch)}

\* the requests Promise.all of line 645 still awaits for pass p
Awaited(p) == {r \in outstanding : r.pass = p /\ r.live}

\* lines 835-844 (the history is empty when the read failed): the first
\* chunk of writes or, with nothing to write, the info line and the
\* processed mark
Write(p, quotesToAdd, lines, failed) ==
  IF Len(quotesToAdd) > 0
  THEN /\ suspendPortfolioRefresh(SUPPRESS_MS)
       /\ elapsed' = 0
       /\ outstanding' = outstanding \cup requestsOf(p, batchOf(quotesToAdd, 0))
       /\ passes' = [passes EXCEPT ![p].pc = "upsert",
                                   ![p].quotes = quotesToAdd,
                                   ![p].sent = 0,
                                   ![p].failed = failed]
       /\ io' = [kind |-> "write", sym |-> Sym(p)]
       /\ Logs(lines)
       /\ UNCHANGED setVars
  ELSE /\ MarkProcessed(p)
       /\ io' = NoIo
       /\ Logs(lines \cup {Line("info", "added", Sym(p))})
       /\ UNCHANGED <<timerVars, outstanding>>

\* lines 818-833: the diff of the schedule against the history
Reconcile(p, history, lines, failed) ==
  \E quotesToAdd \in {diffSchedule(Sym(p), passes[p].schedule, history, 1)} :
    Write(p, quotesToAdd, lines, failed)

\* getHistory resolves (line 799)
HistoryOk(p) ==
  /\ passes[p].pc = "history"
  /\ NoFail
  /\ call' = NoCall
  /\ Reconcile(p, getHistory(Sym(p)), {}, FALSE)
  /\ UNCHANGED <<moduleVars, subVars, refreshPromise, setupPc, lastPass, callers,
                 holdings, quoteStore, profiles, pendingEvents, tz, probe, calls,
                 outcome>>

\* what the catch of lines 811-816 leaves of the history: nothing, and the
\* symbol goes on to the diff
historyCatch == {}

\* getHistory rejects: caught at line 811
HistoryFail(p) ==
  /\ passes[p].pc = "history"
  /\ MayFail(1)
  /\ call' = NoCall
  /\ Reconcile(p, historyCatch, {Line("warn", "history", Sym(p))}, TRUE)
  /\ UNCHANGED <<moduleVars, subVars, refreshPromise, setupPc, lastPass, callers,
                 holdings, quoteStore, profiles, pendingEvents, tz, probe, calls,
                 outcome>>

\* the host answers a quotes.update request: the quote is recorded and the
\* host emits portfolio-updated.  When it was the last request the chunk
\* awaited, the loop of line 643 sends the next chunk or lines 840-844 run
UpsertOk(r) ==
  /\ r \in outstanding
  /\ pendingEvents < MaxPending
  /\ NoFail
  /\ call' = NoCall
  /\ quoteStore' = upsertQuote(quoteStore, r.quote)
  /\ pendingEvents' = pendingEvents + 1
  /\ LET p == r.pass
         i == passes[p].sent + BATCH_SIZE
     IN IF r.live /\ Awaited(p) = {r}
        THEN IF i < Len(passes[p].quotes)
             THEN /\ outstanding' = (outstanding \ {r})
                                    \cup requestsOf(p, batchOf(passes[p].quotes, i))
                  /\ passes' = [passes EXCEPT ![p].sent = i]
                  /\ io' = [kind |-> "write", sym |-> Sym(p)]
                  /\ Logs({})
                  /\ UNCHANGED setVars
             ELSE /\ outstanding' = outstanding \ {r}
                  /\ MarkProcessed(p)
                  /\ io' = NoIo
                  /\ Logs({Line("info", "added", Sym(p))})
        ELSE /\ outstanding' = outstanding \ {r}
             /\ io' = NoIo
             /\ Logs({})
             /\ UNCHANGED <<passes, setVars>>
  /\ UNCHANGED <<moduleVars, timerVars, subVars, refreshPromise, setupPc, lastPass,
                 callers, holdings, profiles, tz, probe, calls, outcome>>

\* a quotes.update request fails.  Promise.all rejects on the first failure
\* of a chunk and the exception reaches the catch of line 845; the chunk's
\* other requests stay with the host, and nothing awaits their answers
UpsertFail(r) ==
  /\ r \in outstanding
  /\ MayFail(1)
  /\ call' = NoCall
  /\ io' = NoIo
  /\ IF r.live
     THEN /\ outstanding' = {[q EXCEPT !.live = q.live /\ q.pass # r.pass] :
                               q \in outstanding \ {r}}
          /\ SymbolError(r.pass, {})
     ELSE /\ outstanding' = outstanding \ {r}
          /\ Logs({})
          /\ UNCHANGED <<passes, setVars, refreshPromise, calls, setupPc, lastPass,
                         outcome>>
  /\ UNCHANGED <<moduleVars, timerVars, subVars, callers, holdings, quoteStore,
                 profiles, pendingEvents, tz, probe>>

(***************************************************************************)
(* The engine with its host: holdings change, other events arrive, the     *)
(* returned function is called, other code asks for the workbook           *)
(***************************************************************************)
\* one step of a refresh pass, or the host answering one of its requests
PassStep ==
  \/ \E p \in PassIds : AccountsOk(p)
  \/ \E p \in PassIds : AccountsFail(p)
  \/ \E p \in PassIds : \E failing \in SUBSET Range(Accounts) : HoldingsDone(p, failing)
  \/ \E p \in PassIds : LoopStep(p)
  \/ \E p \in PassIds : SeriesLoaded(p)
  \/ \E p \in PassIds : ProfileOk(p)
  \/ \E p \in PassIds : ProfileFail(p)
  \/ \E p \in PassIds : UpdateProfileOk(p)
  \/ \E p \in PassIds : UpdateProfileFail(p)
  \/ \E p \in PassIds : HistoryOk(p)
  \/ \E p \in PassIds : HistoryFail(p)
  \/ \E r \in outstanding : UpsertOk(r)
  \/ \E r \in outstanding : UpsertFail(r)

Next ==
  \/ SubscribeOk
  \/ SubscribeFail
  \/ ExternalEvent
  \/ DeliverEvent
  \/ Teardown
  \/ Tick
  \/ TimerFire
  \/ HoldingsChange
  \/ FetchOk
  \/ FetchFail
  \/ PassStep

Spec == Init /\ [][Next]_vars

(***************************************************************************)
(* The engine left alone with the host: the holdings and the source stay   *)
(* as they are, nobody else changes the portfolio, the returned function   *)
(* is not called.  The host answers every request and delivers every       *)
(* event it has emitted, and a timer that is due fires.                    *)
(***************************************************************************)
NextClosed ==
  \/ SubscribeOk
  \/ SubscribeFail
  \/ DeliverEvent
  \/ Tick
  \/ TimerFire
  \/ FetchOk
  \/ FetchFail
  \/ PassStep

SpecClosed == Init /\ [][NextClosed]_vars /\ WF_vars(NextClosed)

(***************************************************************************)
(* getWorkbook under callers that do not wait for one another              *)
(***************************************************************************)
NextWorkbook ==
  \/ FetchOk
  \/ FetchFail
  \/ \E c \in CallerIds : CallGetWorkbook(c)
  \/ \E c \in CallerIds : CallerReturns(c)

SpecWorkbook == Init /\ [][NextWorkbook]_vars

(***************************************************************************)
(* What the claims speak of                                                *)
(***************************************************************************)
RunningPasses == {p \in PassIds : Running(p)}

\* the quotes pass p asks the host to record in this step
Written(p) ==
  {r.quote : r \in {q \in outstanding' \ outstanding : q.pass = p /\ q.live}}

\* some pass asks the host to record a quote in this step
WritesQuotes == \E p \in PassIds : Written(p) # {}

\* the normalized symbols the accounts hold
HeldSymbols ==
  UNION {{normalizeSymbol(holdings[a][k]) : k \in 1..Len(holdings[a])} :
           a \in Range(Accounts)}

\* every held bond symbol is in the processed or the skipped set
AllSettled ==
  \A s \in HeldSymbols :
    parseBondSymbol(s) # NONE => s \in processedSymbols \cup skippedSymbols

\* the holdings and the recorded quotes are those of the latest completed pass
SinceLastPassUnchanged ==
  /\ lastPass # NONE
  /\ lastPass.holdings = holdings
  /\ lastPass.quotes = quoteStore

\* a suppression window is open: less than 1.5 s since the latest start of a
\* batch of writes
WindowOpen == elapsed \in 0..(SUPPRESS_MS - 1)

\* no window is open: no batch was ever started, or the latest more than
\* 1.5 s ago
WindowClosed == elapsed = -1 \/ elapsed > SUPPRESS_MS

(***************************************************************************)
(* C1: at most one refresh pass runs at a time; a refreshHoldings call     *)
(* made while a pass runs starts no pass and completes exactly when that   *)
(* pass completes; a call made when no pass runs starts one.               *)
(***************************************************************************)
C1_OnePassAtATime ==
  /\ [](/\ Cardinality(RunningPasses) <= 1
        /\ \A c \in calls : Running(c[2]))
  /\ [][/\ (call'.got # 0 /\ call'.running # 0)
           => (call'.got = call'.running /\ passes' = passes)
        /\ (call'.got # 0 /\ call'.running = 0)
           => (RunningPasses = {} /\ passes'[call'.got].pc = "accounts")
        /\ \A c \in calls : c \notin calls' <=> passes'[c[2]].pc = "idle"]_vars

\* an event has called refreshHoldings while a pass was running, an earlier
\* pass having completed before
C1_Witness ==
  /\ call.by = "event"
  /\ call.running # 0
  /\ call.got = call.running
  /\ lastPass # NONE

(***************************************************************************)
(* C2: a symbol in the processed or the skipped set stays there, and no    *)
(* series lookup, profile call, history read or quote write is made for it *)
(***************************************************************************)
C2_HandledSymbolsStay ==
  [][/\ processedSymbols \subseteq processedSymbols'
     /\ skippedSymbols \subseteq skippedSymbols'
     /\ io'.kind # "none"
        => io'.sym \notin processedSymbols \cup skippedSymbols]_vars

\* a later pass has listed the holdings and is past a symbol that is processed
\* and past one that is skipped
C2_Witness ==
  /\ lastPass # NONE
  /\ \E p \in PassIds :
       /\ passes[p].pc = "loop"
       /\ \E i, j \in 1..(passes[p].idx - 1) :
            /\ passes[p].symbols[i] \in processedSymbols
            /\ passes[p].symbols[j] \in skippedSymbols
       /\ io = NoIo

(***************************************************************************)
(* C3: when the workbook fetch, the history read or a quote upsert fails   *)
(* for a symbol, the step logs a line naming the symbol, the pass moves to *)
(* the next symbol, and the symbol leaves the pass in neither set          *)
(***************************************************************************)
\* a call of the quote pipeline fails for the symbol pass p is working on
PipelineFails(p) ==
  \/ passes[p].pc = "wbErr" /\ passes'[p].pc # "wbErr"
  \/ /\ passes[p].pc \in {"history", "upsert"}
     /\ failures' > failures
     /\ passes'[p] # passes[p]

C3_FailedSymbolRetried ==
  [][\A p \in PassIds :
       /\ PipelineFails(p)
          => /\ \E l \in logged' : l.level = "warn" /\ l.sym = Sym(p)
             /\ passes'[p].pc = "loop"
             /\ passes'[p].idx = passes[p].idx + 1
       /\ (/\ Running(p)
           /\ passes[p].pc \notin {"accounts", "holdings", "loop"}
           /\ passes'[p].pc = "loop"
           /\ PipelineFails(p) \/ passes[p].failed)
          => Sym(p) \notin processedSymbols' \cup skippedSymbols']_vars

(***************************************************************************)
(* C4: after a pass has completed, a further refreshHoldings with the      *)
(* holdings and the recorded quotes unchanged writes no quote              *)
(***************************************************************************)
C4_RerunWritesNothing == [][SinceLastPassUnchanged => ~WritesQuotes]_vars

\* C4 as amended: after a pass that has completed and left every held bond
\* symbol processed or skipped, a further refreshHoldings with the holdings
\* and the recorded quotes unchanged writes no quote
C4_SettledRerunWritesNothing ==
  [][(SinceLastPassUnchanged /\ AllSettled) => ~WritesQuotes]_vars

\* a further pass is past a processed symbol, every held bond symbol being
\* settled and the quotes some pass wrote unchanged since the latest pass
C4_Witness ==
  /\ SinceLastPassUnchanged
  /\ AllSettled
  /\ quoteStore # {}
  /\ processedSymbols # {}
  /\ \E p \in PassIds :
       /\ passes[p].pc = "loop"
       /\ passes[p].idx > 1
       /\ passes[p].symbols[1] \in processedSymbols

(***************************************************************************)
(* C5: when a pass diffs a schedule against the recorded quotes, a point   *)
(* whose date no recorded quote has is written as an addition, a point     *)
(* whose recorded price differs by more than 0.004 is written as an        *)
(* update of the recorded quote, a point within 0.004 is not written, and  *)
(* nothing is written for a date that is not a schedule point.  A recorded *)
(* quote has the date that extractQuoteDateKey reads from it.              *)
(***************************************************************************)
\* the recorded quotes of a symbol that have a date
RecordedOn(symbol, dateKey) ==
  {q \in getHistory(symbol) : extractQuoteDateKey(q) = <<dateKey>>}

\* what the claim asks of the writes for one schedule point
PointDiffed(p, value) ==
  LET recorded == RecordedOn(Sym(p), formatDateISO(value.date))
      written == {w \in Written(p) : w.timestamp = formatDateISO(value.date)}
  IN IF recorded = {}
     THEN written = {buildQuote(Sym(p), value.date, value.price)}
     ELSE \A q \in recorded :
            IF priceChanged(q, value.price)
            THEN \E w \in written : w.adjclose = value.price /\ w.id = q.id
            ELSE written = {}

C5_DiffPerPoint ==
  [][\A p \in PassIds :
       (passes[p].pc = "history" /\ passes'[p].pc # "history")
       => /\ \A i \in 1..Len(passes[p].schedule) :
               PointDiffed(p, passes[p].schedule[i])
          /\ \A w \in Written(p) :
               \E i \in 1..Len(passes[p].schedule) :
                 w.timestamp = formatDateISO(passes[p].schedule[i].date)]_vars

(***************************************************************************)
(* C6: a portfolio-updated event delivered while a suppression window is   *)
(* open does not call refreshHoldings; one delivered when no window is     *)
(* open calls it                                                           *)
(***************************************************************************)
C6_SuppressionWindow ==
  [][call'.by = "event"
     => /\ WindowOpen => call'.got = 0
        /\ WindowClosed => call'.got # 0]_vars

\* an event has been delivered and dropped within a window that a second
\* batch of writes had restarted
C6_Witness ==
  /\ call.by = "event"
  /\ call.got = 0
  /\ WindowOpen
  /\ elapsed > 0
  /\ Cardinality(processedSymbols) >= 1
  /\ \E p \in PassIds : passes[p].pc = "upsert" /\ Sym(p) \notin processedSymbols

(***************************************************************************)
(* C7: left alone with a host that emits an event for every successful     *)
(* upsert, the engine comes to rest: from some moment on no pass runs, no  *)
(* request is outstanding and no event is pending                          *)
(***************************************************************************)
AtRest == RunningPasses = {} /\ outstanding = {} /\ pendingEvents = 0

FailureHandled ==
  \/ failures' > failures /\ fetching' = fetching
  \/ \E p \in PassIds : passes[p].pc = "wbErr" /\ passes'[p].pc # "wbErr"

\* Promise.all of line 617 resolves although getHoldings failed for an account
HoldingsFailureSwallowed ==
  \E p \in PassIds : passes[p].pc = "holdings" /\ passes'[p].pc # "holdings"

\* a request fails that no Promise.all awaits any more
OrphanFails ==
  /\ passes' = passes
  /\ \E r \in outstanding : ~r.live /\ outstanding' = outstanding \ {r}

Waiting == {c \in CallerIds : callers[c] = "waiting"}

C9_OneDownloadShared ==
  /\ [](fetching <= 1)
  /\ [][/\ \A c \in Waiting :
             callers'[c] # "waiting"
             => /\ fetching' < fetching
                /\ callers'[c] = IF workbookPromise' = "resolved" THEN "ok"
                                 ELSE "error"
                /\ \A d \in Waiting : callers'[d] = callers'[c]
        /\ fetching' > fetching => workbookPromise = "null"
        /\ workbookPromise = "resolved"
           => (workbookPromise' = "resolved" /\ fetching' <= fetching)]_vars

\* two callers wait for the one download in flight
C9_Witness ==
  /\ fetching = 1
  /\ Cardinality(Waiting) >= 2

(***************************************************************************)
(* C10: when the download fails every waiting caller gets the error, the   *)
(* cache is empty afterwards and never holds a rejected promise, and the   *)
(* next call starts a download                                             *)
(***************************************************************************)
C10_FailureClearsCache ==
  /\ [](workbookPromise # "rejected")
  /\ [][/\ (fetching' < fetching /\ failures' > failures)
           => /\ workbookPromise' = "null"
              /\ \A c \in Waiting : callers'[c] = "error"
        /\ \A c \in CallerIds :
             (workbookPromise = "null" /\ callers[c] = "idle" /\ callers'[c] # "idle")
             => (fetching' = fetching + 1 /\ callers'[c] = "waiting")]_vars

\* two callers hold the error of a failed download and a third call has
\* started a new download
C10_Witness ==
  /\ failures > 0
  /\ fetching = 1
  /\ Cardinality({c \in CallerIds : callers[c] = "error"}) >= 2
  /\ Waiting # {}

(***************************************************************************)
(* C11: a symbol for which the series lookup finds no sheet, no layout or  *)
(* no series, or whose schedule is null or empty, is added to the skipped  *)
(* set; the warning for a symbol is logged in the step that adds it and in *)
(* no other, so once; no profile update or quote write is made for it      *)
(***************************************************************************)
\* the bond symbols the workbook gives no schedule for
UnusableSymbols ==
  {s \in Symbols :
     /\ parseBondSymbol(s) # NONE
     /\ LET m == parseBondSymbol(s)
            series == seriesOf(m.seriesId, m.bondType)
        IN \/ ~sheetLoads(m.bondType)
           \/ series = NONE
           \/ buildScheduledValues(series, m.hasDay, m.purchaseDay).isNull
           \/ buildScheduledValues(series, m.hasDay, m.purchaseDay).values = <<>>}

\* the warning of lines 762-764 or 776-778 is logged for the symbol in this step
SkipWarned(s) ==
  \E l \in logged' :
    l.level = "warn" /\ l.what \in {"noSeries", "noSchedule"} /\ l.sym = s

C11_UnusableSymbolSkippedOnce ==
  [][/\ \A p \in PassIds :
          (/\ passes[p].pc = "wbOk"
           /\ passes'[p] # passes[p]
           /\ Sym(p) \in UnusableSymbols)
          => (Sym(p) \in skippedSymbols' /\ passes'[p].pc \in {"loop", "idle"})
     /\ \A s \in Symbols :
          SkipWarned(s) <=> (s \in skippedSymbols' /\ s \notin skippedSymbols)
     /\ skippedSymbols \subseteq skippedSymbols'
     /\ io'.kind \in {"updateProfile", "write"}
        => io'.sym \notin skippedSymbols' \cup UnusableSymbols]_vars

\* a later pass has gone past three symbols skipped for the three reasons,
\* logging nothing
C11_Witness ==
  /\ {SymTos, SymRorGone, SymCoi} \subseteq skippedSymbols
  /\ lastPass # NONE
  /\ logged = {}
  /\ \E p \in PassIds : passes[p].pc = "loop" /\ passes[p].idx > 3

(***************************************************************************)
(* The schedule builders applied on their own: probe holds a series, the   *)
(* purchase-day anchor of the symbol and today's date, and the results of  *)
(* the event-based and of the daily-interpolated buildScheduledValues.     *)
(***************************************************************************)
\* the "Wykup" cell: a term, a date, or something else
ScheduleMaturities ==
  {[kind |-> "term", amount |-> 3, unit |-> "miesiecy"],
   [kind |-> "term", amount |-> 1, unit |-> "rok"],
   [kind |-> "date", date |-> DateOf(2024, 7, 15)],
   [kind |-> "date", date |-> DateOf(2025, 1, 18)],
   [kind |-> "date", date |-> DateOf(2024, 1, 4)],
   [kind |-> "date", date |-> DateOf(2023, 12, 15)],
   [kind |-> "term", amount |-> 3, unit |-> "dni"],
   [kind |-> "other"]}

\* the rate and interest columns of a row
ScheduleRates ==
  {[rateValues |-> << <<20>> >>, interestValues |-> <<>>],
   [rateValues |-> << <<20>>, <<25>>, <<30>> >>, interestValues |-> <<>>],
   [rateValues |-> << <<20>>, <<>>, <<30>> >>,
    interestValues |-> << <<>>, <<1500>>, <<>> >>],
   [rateValues |-> << <<>>, <<>> >>, interestValues |-> << <<>> >>],
   [rateValues |-> << <<30>> >>, interestValues |-> << <<2000>> >>],
   [rateValues |-> << <<20>>, <<30>> >>, interestValues |-> <<>>],
   [rateValues |-> << <<20>>, <<>>, <<30>> >>, interestValues |-> <<>>],
   [rateValues |-> << <<20>>, <<>> >>, interestValues |-> << <<>>, <<-500>> >>],
   [rateValues |-> <<>>, interestValues |-> <<>>]}

ScheduleSeries ==
  {[seriesId |-> bondType \o <<"0","1","2","7">>, bondType |-> bondType,
    saleStart |-> DateOf(2024, 1, 2), saleEnd |-> DateOf(2024, 1, 31),
    emissionPrice |-> 100000, maturity |-> maturity,
    rateValues |-> rates.rateValues, interestValues |-> rates.interestValues] :
     bondType \in {<<"R","O","R">>, OtsType},
     maturity \in ScheduleMaturities, rates \in ScheduleRates}

\* purchaseDay of the bond reference: undefined, or the number of the suffix
PurchaseDays ==
  {[hasDay |-> FALSE, day |-> 0], [hasDay |-> TRUE, day |-> 19],
   [hasDay |-> TRUE, day |-> 31], [hasDay |-> TRUE, day |-> 0]}

\* toLocalDate(new Date()): before the sale, within the term, after the buyout
Todays == {DateOf(2023, 12, 1), DateOf(2024, 2, 10), DateOf(2026, 1, 1)}

InitSchedule ==
  /\ EngineInit
  /\ holdings = InitialHoldings
  /\ quoteStore = {}
  /\ tz = 1
  /\ probe \in [series : ScheduleSeries, anchor : PurchaseDays, today : Todays,
                event : {NONE}, daily : {NONE}]

\* buildScheduledValues of lines 532-613 applied to the input
BuildEventSchedule ==
  /\ probe.event = NONE
  /\ probe' = [probe EXCEPT !.event =
                 buildScheduledValues(probe.series, probe.anchor.hasDay,
                                      probe.anchor.day)]
  /\ UNCHANGED engineVars

\* buildScheduledValues of lines 1489-1600 applied to the input
BuildDailySchedule ==
  /\ probe.daily = NONE
  /\ probe' = [probe EXCEPT !.daily =
                 buildDailyValues(probe.series, probe.anchor.hasDay,
                                  probe.anchor.day, probe.today)]
  /\ UNCHANGED engineVars

NextSchedule == BuildEventSchedule \/ BuildDailySchedule

SpecSchedule == InitSchedule /\ [][NextSchedule]_vars

\* the purchase and buyout dates of the input of probe
ProbePurchaseDate ==
  resolvePurchaseDate(probe.series.saleStart, probe.series.saleEnd,
                      probe.anchor.day)

ProbeBuyoutDate == getBuyoutDate(probe.series, ProbePurchaseDate)

\* C12: in the daily-interpolated variant every point of the schedule is
\* dated on or before today, whatever the series, the purchase-day anchor
\* and the current date; so are the quotes the engine makes of the points
C12_DailyNeverAfterToday ==
  (probe # NONE /\ probe.daily # NONE /\ ~probe.daily.isNull)
    => /\ \A k \in DOMAIN probe.daily.values :
            probe.daily.values[k].date <= probe.today
       /\ \A k \in DOMAIN probe.daily.values :
            \A q \in Range(diffPoint(probe.series.seriesId,
                                      probe.daily.values[k], NONE)) :
              listedAt(q) <= probe.today

\* today falls inside a period of a schedule of several periods: the
\* boundaries after it and the buyout are in the future
C12_Witness ==
  /\ probe # NONE /\ probe.daily # NONE /\ ~probe.daily.isNull
  /\ probe.series.bondType # OtsType /\ Len(probe.series.rateValues) = 3
  /\ ProbePurchaseDate < probe.today
  /\ ProbeBuyoutDate # <<>> /\ probe.today < ProbeBuyoutDate[1]
  /\ Len(probe.daily.values) > 2
  /\ probe.daily.values[Len(probe.daily.values)].date = probe.today

\* the purchase date itself lies in the future: a schedule without points
C12_WitnessFuturePurchase ==
  /\ probe # NONE /\ probe.daily # NONE /\ ~probe.daily.isNull
  /\ probe.today < ProbePurchaseDate
  /\ probe.daily.values = <<>>

\* a schedule whose points lie within [purchaseDate, buyoutDate] and are
\* strictly ascending by date
WithinTermAscending(schedule) ==
  (schedule # NONE /\ ~schedule.isNull)
    => /\ \A k \in DOMAIN schedule.values :
            /\ ProbePurchaseDate <= schedule.values[k].date
            /\ schedule.values[k].date <= ProbeBuyoutDate[1]
       /\ \A k \in 1..(Len(schedule.values) - 1) :
            schedule.values[k].date < schedule.values[k + 1].date

\* C13: every non-null schedule, event-based or daily, has all its points
\* within [purchaseDate, buyoutDate] and strictly ascending by date, no two
\* on the same date
C13_WithinTermAscending ==
  probe # NONE => WithinTermAscending(probe.event) /\ WithinTermAscending(probe.daily)

\* the purchase date is before the buyout date and the term has at least one
\* day for each period
TermHoldsPeriods ==
  /\ ProbeBuyoutDate # <<>>
  /\ ProbePurchaseDate < ProbeBuyoutDate[1]
  /\ Max(Len(probe.series.rateValues), Len(probe.series.interestValues))
       <= ProbeBuyoutDate[1] - ProbePurchaseDate

\* what holds of C13: the schedules of the series whose term has a day for
\* each period
C13_WithinTermAscendingOfProperTerms ==
  (probe # NONE /\ TermHoldsPeriods)
    => WithinTermAscending(probe.event) /\ WithinTermAscending(probe.daily)

\* a buyout date after the purchase date is not enough for it
C13_WithinTermAscendingAfterPurchase ==
  (probe # NONE /\ ProbeBuyoutDate # <<>> /\ ProbePurchaseDate < ProbeBuyoutDate[1])
    => WithinTermAscending(probe.event) /\ WithinTermAscending(probe.daily)

(***************************************************************************)
(* C14: every quote the engine writes has the id YYYYMMDD_<normalized      *)
(* symbol> of its point's date, the timestamp of midnight UTC of that      *)
(* date, the schedule price as open, high, low, close and adjclose, volume *)
(* 0, currency PLN and the manual data source, be it an addition or an     *)
(* update of a recorded quote                                              *)
(***************************************************************************)
\* the fields of a written quote that are the same for additions and updates
ShapedAs(w, symbol, value) ==
  /\ w.timestamp = formatDateISO(value.date)
  /\ w.symbol = normalizeSymbol(symbol)
  /\ w.open = value.price /\ w.high = value.price /\ w.low = value.price
  /\ w.close = value.price /\ w.adjclose = value.price
  /\ w.volume = 0
  /\ w.currency = "PLN"

\* the id and the data source the engine computes
IdentifiedAfresh(w, symbol, value) ==
  /\ w.id = [fmt |-> "compact", date |-> formatDateISO(value.date),
             sym |-> normalizeSymbol(symbol)]
  /\ w.dataSource = "MANUAL"

\* the id, the creation time and the data source of a recorded quote
IdentifiedAs(w, existing) ==
  /\ w.id = existing.id
  /\ w.createdAt = existing.createdAt
  /\ w.dataSource = existing.dataSource

C14_WrittenQuoteFields ==
  [][\A p \in PassIds : \A w \in Written(p) :
       \E i \in 1..Len(passes[p].schedule) :
         /\ ShapedAs(w, Sym(p), passes[p].schedule[i])
         /\ IdentifiedAfresh(w, Sym(p), passes[p].schedule[i])]_vars

\* C14 as amended: the timestamp, the prices, the volume and the currency
\* are as stated; an addition has the computed id and the manual data
\* source, an update has the id, the creation time and the data source of
\* the recorded quote it updates
C14_WrittenQuoteFieldsKeepIdentity ==
  [][\A p \in PassIds : \A w \in Written(p) :
       \E i \in 1..Len(passes[p].schedule) :
         /\ ShapedAs(w, Sym(p), passes[p].schedule[i])
         /\ LET existing ==
                  IF passes'[p].failed THEN NONE
                  ELSE existingByDate(getHistory(Sym(p)),
                                      formatDateISO(passes[p].schedule[i].date))
            IN IF existing = NONE
               THEN IdentifiedAfresh(w, Sym(p), passes[p].schedule[i])
               ELSE IdentifiedAs(w, existing)]_vars

\* a pass has sent an update of a quote recorded by another source under
\* another id, together with additions
C14_Witness ==
  \E p \in PassIds :
    /\ passes[p].pc = "upsert"
    /\ \E r, a \in outstanding :
         /\ r.pass = p /\ a.pass = p
         /\ r.quote.dataSource = "YAHOO"
         /\ r.quote.id.fmt = "opaque"
         /\ a.quote.dataSource = "MANUAL"

(***************************************************************************)
(* parseBondSymbol applied on its own: probe holds a string and, once      *)
(* parsed, the bond reference                                              *)
(***************************************************************************)
\* the strings: white space, three characters, four characters, a suffix,
\* white space
SymbolLetters ==
  {<<"R","O","R">>, <<"r","o","r">>, <<"O","t","S">>, <<"R","0","R">>,
   <<"R","O">>, <<"R","O","R","R">>, <<"R","O"," ">>, <<"R","-","R">>}

SymbolDigits ==
  {<<"0","1","2","7">>, <<"9","9","9","9">>, <<"0","1","2">>,
   <<"0","1","a","7">>, <<"0","1","2","7","5">>, <<"0","1",".","7">>}

SymbolSuffixes ==
  {<<>>, <<".","1">>, <<".","1","9">>, <<".","0","0">>, <<".","0","7">>,
   <<".","9","9">>, <<".","1","2","3">>, <<".">>, <<".","1","a">>,
   <<"1","9">>, <<".","-","1">>, <<" ",".","1","9">>, <<".","1"," ","9">>,
   <<"\n",".","1">>}

SymbolMargins == {<<>>, <<" ">>, <<"\t"," ">>, <<"\n">>}

SymbolInputs ==
  {left \o letters \o digits \o suffix \o right :
     left \in SymbolMargins, letters \in SymbolLetters,
     digits \in SymbolDigits, suffix \in SymbolSuffixes,
     right \in {<<>>, <<" ">>, <<"\n">>}}

InitSymbols ==
  /\ EngineInit
  /\ holdings = InitialHoldings
  /\ quoteStore = {}
  /\ tz = 1
  /\ probe \in [symbol : SymbolInputs, parsed : {FALSE}, match : {NONE}]

\* parseBondSymbol(symbol), lines 208-218
ParseSymbol ==
  /\ ~probe.parsed
  /\ probe' = [probe EXCEPT !.parsed = TRUE,
                            !.match = parseBondSymbol(probe.symbol)]
  /\ UNCHANGED engineVars

NextSymbols == ParseSymbol

SpecSymbols == InitSymbols /\ [][NextSymbols]_vars

\* the string of probe trimmed and in upper case
ProbeUpper ==
  [i \in 1..Len(Trim(probe.symbol)) |-> ToUpperChar(Trim(probe.symbol)[i])]

\* a string of the form LLLNNNN, LLLNNNN.D or LLLNNNN.DD
HasBondForm(s) ==
  /\ Len(s) \in {7, 9, 10}
  /\ \A i \in 1..3 : s[i] \in Range(UpperChars)
  /\ \A i \in 4..7 : s[i] \in Range(DigitChars)
  /\ Len(s) > 7 => s[8] = "." /\ \A i \in 9..Len(s) : s[i] \in Range(DigitChars)

\* the number a suffix of one or two digits writes
DayOfSuffix(s) ==
  IF Len(s) = 9 THEN DigitValue(s[9])
  ELSE 10 * DigitValue(s[9]) + DigitValue(s[10])

\* C15: a string that, trimmed and in upper case, has the form LLLNNNN or
\* LLLNNNN.DD (a suffix of one or two digits) parses to seriesId = the seven
\* characters LLLNNNN, bondType = its first three letters and purchaseDay =
\* the number DD, absent without a suffix; any other string parses to no
\* bond reference
C15_ParsesBondForm ==
  (probe # NONE /\ probe.parsed)
    => IF HasBondForm(ProbeUpper)
       THEN /\ probe.match # NONE
            /\ probe.match.seriesId = SubSeq(ProbeUpper, 1, 7)
            /\ probe.match.bondType = SubSeq(ProbeUpper, 1, 3)
            /\ probe.match.hasDay = (Len(ProbeUpper) > 7)
            /\ probe.match.hasDay
                 => probe.match.purchaseDay = DayOfSuffix(ProbeUpper)
       ELSE probe.match = NONE

\* a string in lower case between white space, with the suffix .07, has
\* parsed to the purchase day 7
C15_Witness ==
  /\ probe # NONE /\ probe.parsed
  /\ probe.symbol # ProbeUpper
  /\ Head(probe.symbol) \in SpaceChars
  /\ probe.match # NONE
  /\ probe.match.bondType = <<"R","O","R">>
  /\ probe.match.hasDay /\ probe.match.purchaseDay = 7

\* a string with a suffix of three digits has parsed to no bond reference
C15_WitnessNoReference ==
  /\ probe # NONE /\ probe.parsed
  /\ Len(ProbeUpper) = 11
  /\ \A i \in 9..11 : ProbeUpper[i] \in Range(DigitChars)
  /\ probe.match = NONE

(***************************************************************************)
(* C16: when reading or updating the instrument profile fails for a        *)
(* symbol, the failure is logged and the pass goes on with the symbol: it  *)
(* reads the history, diffs and upserts the quotes and marks the symbol    *)
(* processed                                                               *)
(***************************************************************************)
\* the bond symbols the workbook gives a schedule for
UsableSymbols == {s \in Symbols : parseBondSymbol(s) # NONE} \ UnusableSymbols

\* getProfile or updateProfile fails for the symbol pass p is working on
ProfileCallFails(p) ==
  /\ passes[p].pc \in {"profile", "updateProfile"}
  /\ failures' > failures
  /\ passes'[p] # passes[p]

\* the warning of line 662 or of lines 790-792 for the symbol
ProfileWarning(l, s) ==
  l.level = "warn" /\ l.what \in {"profile", "metadata"} /\ l.sym = s

\* pass p has just taken a failed profile call for symbol s, n calls having
\* failed so far
AfterProfileFailure(p, s, n) ==
  /\ passes[p].pc = "history"
  /\ Sym(p) = s
  /\ failures = n
  /\ \E l \in logged : ProfileWarning(l, s)

C16_ProfileFailureNotFatal ==
  /\ [][\A p \in PassIds :
          ProfileCallFails(p)
          => /\ \E l \in logged' : ProfileWarning(l, Sym(p))
             /\ passes'[p].pc = "history"
             /\ passes'[p].idx = passes[p].idx
             /\ io' = [kind |-> "history", sym |-> Sym(p)]
             /\ Sym(p) \notin skippedSymbols']_vars
  /\ \A p \in PassIds : \A s \in UsableSymbols : \A n \in 1..MaxFailures :
         AfterProfileFailure(p, s, n)
           ~> (s \in processedSymbols \/ failures > n)

\* a symbol whose profile update failed is processed, its quotes recorded
C16_Witness ==
  \E s \in Symbols :
    /\ s \in processedSymbols
    /\ s \notin metadataUpdatedSymbols
    /\ \E q \in quoteStore : q.symbol = s /\ q.dataSource = "MANUAL"
    /\ failures = 1

(***************************************************************************)
(* ensureBondMetadata applied to a profile on its own: probe holds the     *)
(* profile getProfile returned and, once applied, whether updateProfile    *)
(* was called and with what                                                *)
(***************************************************************************)
\* a text field of a profile: missing or empty, blank, or with text
FieldTexts == {"", " ", "Text"}

MetadataProfiles ==
  [name : FieldTexts \cup {"My bond"}, assetClass : FieldTexts,
   assetSubClass : FieldTexts, countries : FieldTexts, sectors : {""},
   notes : {"", "mine"}]

InitMetadata ==
  /\ EngineInit
  /\ holdings = InitialHoldings
  /\ quoteStore = {}
  /\ tz = 1
  /\ probe \in [profile : MetadataProfiles \cup {NONE}, returned : {FALSE},
                sent : {FALSE}, payload : {NONE}]

\* lines 665-703: no profile, nothing to do; else the update, if one is needed
EnsureBondMetadata ==
  /\ ~probe.returned
  /\ probe' = IF probe.profile = NONE \/ ~needsUpdate(probe.profile)
              THEN [probe EXCEPT !.returned = TRUE]
              ELSE [probe EXCEPT !.returned = TRUE, !.sent = TRUE,
                                 !.payload = profilePayload(SymRor, probe.profile)]
  /\ UNCHANGED engineVars

NextMetadata == EnsureBondMetadata

SpecMetadata == InitMetadata /\ [][NextMetadata]_vars

\* a field that holds more than white space
Present(text) == text \notin {"", " "}

\* C17: for a profile with a non-blank name the update sent carries no name,
\* and for a profile with name, asset class, asset subclass and countries
\* all present no update is sent
C17_NameKeptNoNeedlessUpdate ==
  (probe # NONE /\ probe.returned /\ probe.profile # NONE)
    => /\ (Present(probe.profile.name) /\ probe.sent) => probe.payload.name = ""
       /\ (/\ Present(probe.profile.name)
           /\ Present(probe.profile.assetClass)
           /\ Present(probe.profile.assetSubClass)
           /\ Present(probe.profile.countries)) => ~probe.sent

\* an update has been sent for a named profile without an asset class: it
\* carries the class and no name
C17_Witness ==
  /\ probe # NONE /\ probe.returned /\ probe.profile # NONE
  /\ probe.profile.name = "My bond"
  /\ probe.profile.assetClass = ""
  /\ probe.sent
  /\ probe.payload.name = ""
  /\ probe.payload.assetClass = "Bonds"

\* nothing has been sent for a profile that has all four
C17_WitnessNoUpdate ==
  /\ probe # NONE /\ probe.returned /\ probe.profile # NONE
  /\ Present(probe.profile.name) /\ Present(probe.profile.assetClass)
  /\ Present(probe.profile.assetSubClass) /\ Present(probe.profile.countries)
  /\ ~probe.sent

(***************************************************************************)
(* C18: once ensureBondMetadata has returned without error for a symbol,   *)
(* no pass reads or updates the profile of the symbol again, also when the *)
(* symbol is retried because a later step of its pipeline failed           *)
(***************************************************************************)
\* ensureBondMetadata returns to line 787 for the symbol of pass p: nothing
\* to do, the update made, or getProfile failed and line 663 returned
MetadataReturns(p) ==
  /\ passes[p].pc \in {"profile", "updateProfile"}
  /\ passes'[p].pc = "history"
  /\ ~(passes[p].pc = "updateProfile" /\ failures' > failures)

C18_MetadataOnce ==
  [][/\ \A p \in PassIds :
          MetadataReturns(p) => Sym(p) \in metadataUpdatedSymbols'
     /\ metadataUpdatedSymbols \subseteq metadataUpdatedSymbols'
     /\ io'.kind \in {"profile", "updateProfile"}
        => io'.sym \notin metadataUpdatedSymbols]_vars

\* a symbol is retried after a failed upsert, one quote of the failed chunk
\* recorded: the pass reads the history without a profile call
C18_Witness ==
  \E p \in PassIds :
    /\ passes[p].pc = "history"
    /\ io = [kind |-> "history", sym |-> Sym(p)]
    /\ Sym(p) \in metadataUpdatedSymbols
    /\ Sym(p) \notin processedSymbols
    /\ failures > 0
    /\ \E i \in 1..Len(passes[p].schedule) :
         buildQuote(Sym(p), passes[p].schedule[i].date,
                    passes[p].schedule[i].price) \in quoteStore

(***************************************************************************)
(* C19: the engine subscribes to portfolio-updated once; however the call  *)
(* of the returned function falls (before the subscription resolves,       *)
(* during the initial pass, after it), once it has been called and the     *)
(* subscription has resolved the subscription is released, and no refresh  *)
(* pass is started after the call                                          *)
(***************************************************************************)
\* a refresh pass starts in this step
PassStarts == \E p \in PassIds : ~Running(p) /\ passes'[p].pc = "accounts"

C19_SubscribedOnceReleased ==
  /\ [](/\ (disabled /\ setupPc # "subscribing") => listener # "active"
        /\ listener = "none" => setupPc \in {"subscribing", "done"})
  /\ [][/\ setupPc # "subscribing" => setupPc' # "subscribing"
        /\ (listener' = "active" /\ listener # "active")
           => (setupPc = "subscribing" /\ listener = "none")
        /\ listener = "released" => listener' = "released"
        /\ disabled => (disabled' /\ ~PassStarts)]_vars

\* the returned function has been called during the initial pass: the
\* subscription is released while the pass goes on
C19_Witness ==
  /\ disabled
  /\ setupPc = "awaitRefresh"
  /\ listener = "released"
  /\ ~unlisten
  /\ lastPass = NONE
  /\ \E p \in PassIds : passes[p].pc = "upsert"

\* it has been called before the subscription resolved: line 868 releases
\* the subscription and no pass has started
C19_WitnessBeforeSubscribed ==
  /\ disabled
  /\ setupPc = "done"
  /\ listener = "released"
  /\ unlisten
  /\ RunningPasses = {}
  /\ lastPass = NONE

\* it has been called after the initial pass, events of the pass's writes
\* still to be delivered
C19_WitnessAfterPass ==
  /\ disabled
  /\ setupPc = "done"
  /\ listener = "released"
  /\ lastPass # NONE
  /\ pendingEvents > 0
  /\ RunningPasses = {}

(***************************************************************************)
(* C20: no symbol is worked on by two passes at once: the in-flight set    *)
(* holds exactly the symbols some pass is working on, a pass that finds    *)
(* its symbol there goes on to the next, and every way out of a symbol's   *)
(* turn (processed, skipped, error) removes it, so that the set is empty   *)
(* when no pass runs                                                       *)
(***************************************************************************)
\* pass p is between line 757 and the finally of line 849 for its symbol
WorkingOn(p) ==
  Running(p) /\ passes[p].pc \notin {"accounts", "holdings", "loop"}

C20_InFlightWhileWorkedOn ==
  /\ [](/\ inFlightSymbols = {Sym(p) : p \in {q \in PassIds : WorkingOn(q)}}
        /\ \A p, q \in PassIds :
             (WorkingOn(p) /\ WorkingOn(q) /\ p # q) => Sym(p) # Sym(q)
        /\ RunningPasses = {} => inFlightSymbols = {})
  /\ [][\A p \in PassIds :
          /\ (/\ passes[p].pc = "loop"
              /\ passes[p].idx <= Len(passes[p].symbols)
              /\ passes'[p] # passes[p]
              /\ Sym(p) \in inFlightSymbols)
             => (/\ passes'[p].pc = "loop"
                 /\ passes'[p].idx = passes[p].idx + 1
                 /\ io' = NoIo)
          /\ (WorkingOn(p) /\ ~WorkingOn(p)')
             => Sym(p) \notin inFlightSymbols']_vars

\* no pass runs and the set is empty, turns having ended in each of the
\* three ways: a symbol processed, one skipped, one left for a retry
C20_Witness ==
  /\ RunningPasses = {}
  /\ inFlightSymbols = {}
  /\ lastPass # NONE
  /\ processedSymbols # {}
  /\ skippedSymbols # {}
  /\ \E s \in HeldSymbols \cap UsableSymbols :
       s \notin processedSymbols \cup skippedSymbols

(***************************************************************************)
(* C21: a held symbol that, trimmed and in upper case, does not match the  *)
(* bond pattern causes no log line, no series lookup and no host read or   *)
(* write for it, and never enters the processed, the skipped, the          *)
(* in-flight or the metadata set                                           *)
(***************************************************************************)
\* the normalized symbols that do not have the bond form
UnmatchedSymbols == {s \in Symbols : ~HasBondForm(s)}

C21_UnmatchedSymbolIgnored ==
  /\ [](/\ (processedSymbols \cup skippedSymbols \cup inFlightSymbols
              \cup metadataUpdatedSymbols) \cap UnmatchedSymbols = {}
        /\ \A l \in logged : l.sym \notin UnmatchedSymbols
        /\ io # NoIo => io.sym \notin UnmatchedSymbols
        /\ \A r \in outstanding : r.quote.symbol \notin UnmatchedSymbols)
  /\ [][\A p \in PassIds :
          (/\ passes[p].pc = "loop"
           /\ passes[p].idx <= Len(passes[p].symbols)
           /\ passes'[p] # passes[p]
           /\ Sym(p) \in UnmatchedSymbols)
          => (/\ passes'[p].pc = "loop"
              /\ passes'[p].idx = passes[p].idx + 1
              /\ quoteStore' = quoteStore
              /\ profiles' = profiles)]_vars

\* a pass has gone past a held symbol without the bond form and works on
\* the bond symbol after it
C21_Witness ==
  \E p \in PassIds :
    /\ WorkingOn(p)
    /\ \E i \in 1..(passes[p].idx - 1) : passes[p].symbols[i] \in UnmatchedSymbols
    /\ processedSymbols # {}

(***************************************************************************)
(* C22: the schedule builders return null when the maturity is neither a   *)
(* date nor a term that parses, and when the series has no numeric rate    *)
(* and no numeric interest for any period, be the series OTS or of several *)
(* periods                                                                 *)
(***************************************************************************)
\* the maturity cell of the series of probe is no date and no term of
\* months or years
MaturityUnresolved ==
  \/ probe.series.maturity.kind \notin {"date", "term"}
  \/ /\ probe.series.maturity.kind = "term"
     /\ \/ probe.series.maturity.unit \notin MonthUnits \cup YearUnits
        \/ probe.series.maturity.amount <= 0

\* no rate column and no interest column of the series holds a number
NoUsableData ==
  /\ \A i \in DOMAIN probe.series.rateValues : probe.series.rateValues[i] = <<>>
  /\ \A i \in DOMAIN probe.series.interestValues :
       probe.series.interestValues[i] = <<>>

\* the builders that have been applied returned null
BuiltNull ==
  /\ probe.event # NONE => probe.event.isNull
  /\ probe.daily # NONE => probe.daily.isNull

C22_NullWithoutMaturityOrData ==
  (probe # NONE /\ (MaturityUnresolved \/ NoUsableData)) => BuiltNull

\* what holds of C22: null without a maturity, for an OTS series without a
\* number in its first rate and interest columns, and for a series without
\* rate and interest columns
C22_NullWithoutMaturityOrColumns ==
  (/\ probe # NONE
   /\ \/ MaturityUnresolved
      \/ NoUsableData /\ probe.series.bondType = OtsType
      \/ probe.series.rateValues = <<>> /\ probe.series.interestValues = <<>>)
    => BuiltNull

\* a series of several periods whose rate and interest cells are all empty
\* has a schedule: the purchase point alone
C22_PurchasePointAlone ==
  /\ probe # NONE /\ probe.event # NONE /\ probe.daily # NONE
  /\ probe.series.bondType # OtsType
  /\ NoUsableData
  /\ ~probe.event.isNull /\ Len(probe.event.values) = 1
  /\ ~probe.daily.isNull /\ Len(probe.daily.values) = 1

(***************************************************************************)
(* resolvePurchaseDate applied on its own: probe holds a sale window and a *)
(* purchase-day anchor and, once resolved, the purchase date               *)
(***************************************************************************)
\* sale windows: within a month, over the end of February, over two months
\* (the days 20 to 25 occur twice), of one day, and ending before it starts
SaleWindows ==
  {[saleStart |-> DateOf(2024, 1, 2), saleEnd |-> DateOf(2024, 1, 31)],
   [saleStart |-> DateOf(2024, 2, 10), saleEnd |-> DateOf(2024, 3, 5)],
   [saleStart |-> DateOf(2024, 1, 20), saleEnd |-> DateOf(2024, 2, 25)],
   [saleStart |-> DateOf(2023, 2, 28), saleEnd |-> DateOf(2023, 2, 28)],
   [saleStart |-> DateOf(2024, 5, 10), saleEnd |-> DateOf(2024, 5, 1)]}

\* the anchors parseBondSymbol can give: none, or the number of one or two
\* digits
MaxAnchor == 99

Anchors ==
  {[hasDay |-> FALSE, day |-> 0]}
  \cup {[hasDay |-> TRUE, day |-> d] : d \in 0..MaxAnchor}

InitPurchase ==
  /\ EngineInit
  /\ holdings = InitialHoldings
  /\ quoteStore = {}
  /\ tz = 1
  /\ probe \in [window : SaleWindows, anchor : Anchors, resolved : {FALSE},
                purchaseDate : {0}]

\* resolvePurchaseDate(saleStart, saleEnd, purchaseDay), lines 179-206
ResolvePurchaseDate ==
  /\ ~probe.resolved
  /\ probe' = [probe EXCEPT
                 !.resolved = TRUE,
                 !.purchaseDate = resolvePurchaseDate(probe.window.saleStart,
                                                      probe.window.saleEnd,
                                                      probe.anchor.day)]
  /\ UNCHANGED engineVars

NextPurchase == ResolvePurchaseDate

SpecPurchase == InitPurchase /\ [][NextPurchase]_vars

\* the dates of the window of probe whose day of the month is the anchor
AnchoredDates ==
  {d \in probe.window.saleStart..probe.window.saleEnd :
     Civil(d).d = probe.anchor.day}

\* C23: without an anchor the purchase date is the start of the sale
\* window; with an anchor D it is the earliest date of the window whose day
\* of the month is D, or the start of the window when there is none
\* (2024-01-02..2024-01-31 and the anchor 19 give 2024-01-19)
C23_PurchaseDateResolved ==
  (probe # NONE /\ probe.resolved)
    => /\ IF ~probe.anchor.hasDay \/ AnchoredDates = {}
          THEN probe.purchaseDate = probe.window.saleStart
          ELSE /\ probe.purchaseDate \in AnchoredDates
               /\ \A d \in AnchoredDates : probe.purchaseDate <= d
       /\ (/\ probe.window = [saleStart |-> DateOf(2024, 1, 2),
                              saleEnd |-> DateOf(2024, 1, 31)]
           /\ probe.anchor = [hasDay |-> TRUE, day |-> 19])
          => probe.purchaseDate = DateOf(2024, 1, 19)

\* the anchor 22 in a window that has two 22nds has given the first
C23_Witness ==
  /\ probe # NONE /\ probe.resolved
  /\ probe.anchor = [hasDay |-> TRUE, day |-> 22]
  /\ Cardinality(AnchoredDates) = 2
  /\ probe.purchaseDate = DateOf(2024, 1, 22)

\* the anchor 30 in a window over the end of February has given the start
C23_WitnessNoSuchDay ==
  /\ probe # NONE /\ probe.resolved
  /\ probe.anchor = [hasDay |-> TRUE, day |-> 30]
  /\ AnchoredDates = {}
  /\ probe.purchaseDate = DateOf(2024, 2, 10)

(***************************************************************************)
(* C24: for every series and every anchor the purchase date lies in the    *)
(* sale window, and every non-null schedule has its purchase date before   *)
(* its buyout date                                                         *)
(***************************************************************************)
\* a builder that has been applied gave a schedule
BuiltSchedule ==
  \/ probe.event # NONE /\ ~probe.event.isNull
  \/ probe.daily # NONE /\ ~probe.daily.isNull

C24_PurchaseInWindowBeforeBuyout ==
  probe # NONE
    => /\ probe.series.saleStart <= ProbePurchaseDate
       /\ ProbePurchaseDate <= probe.series.saleEnd
       /\ BuiltSchedule => ProbePurchaseDate < ProbeBuyoutDate[1]

\* the first half of C24 over the sale windows of SpecPurchase
C24_PurchaseInWindow ==
  (probe # NONE /\ probe.resolved)
    => /\ probe.window.saleStart <= probe.purchaseDate
       /\ probe.purchaseDate <= probe.window.saleEnd

\* what holds of it: the purchase date lies in a window that does not end
\* before it starts
C24_PurchaseInProperWindow ==
  (probe # NONE /\ probe.resolved /\ probe.window.saleStart <= probe.window.saleEnd)
    => /\ probe.window.saleStart <= probe.purchaseDate
       /\ probe.purchaseDate <= probe.window.saleEnd

\* what holds of the second half: a schedule of a series whose maturity is
\* a term has its purchase date before its buyout date
C24_TermBuyoutAfterPurchase ==
  (probe # NONE /\ BuiltSchedule /\ probe.series.maturity.kind = "term")
    => ProbePurchaseDate < ProbeBuyoutDate[1]

(***************************************************************************)
(* C25: every bond reference the parser gives has no purchase day or one   *)
(* in 1..31, so that resolvePurchaseDate (an anchor is a day in 1..31) and *)
(* the OTS rule (an anchor is a purchaseDay that is not undefined) agree   *)
(* on whether there is an anchor                                           *)
(***************************************************************************)
\* resolvePurchaseDate scans for the day: line 184 does not return
AnchorForPurchaseDate(match) ==
  match.purchaseDay # 0 /\ match.purchaseDay >= 1 /\ match.purchaseDay <= 31

\* purchaseDay !== undefined, line 547
AnchorForInterest(match) == match.hasDay

C25_AnchorInRange ==
  (probe # NONE /\ probe.parsed /\ probe.match # NONE)
    => /\ probe.match.hasDay => probe.match.purchaseDay \in 1..31
       /\ AnchorForPurchaseDate(probe.match) <=> AnchorForInterest(probe.match)

\* what holds of it: the purchase day is absent or the number of one or two
\* digits
C25_AnchorOfTwoDigits ==
  (probe # NONE /\ probe.parsed /\ probe.match # NONE)
    => /\ probe.match.hasDay => probe.match.purchaseDay \in 0..MaxAnchor
       /\ AnchorForPurchaseDate(probe.match) => AnchorForInterest(probe.match)

\* the suffix .99 has parsed to the purchase day 99: an anchor for the
\* interest rule and none for the purchase date
C25_AnchorOutOfRange ==
  /\ probe # NONE /\ probe.parsed /\ probe.match # NONE
  /\ probe.match.purchaseDay = 99
  /\ AnchorForInterest(probe.match)
  /\ ~AnchorForPurchaseDate(probe.match)

(***************************************************************************)
(* C26: for an OTS series the interest is emissionPrice x rate x days/365  *)
(* when an anchor is supplied and there is a rate, else the explicit       *)
(* interest amount if there is one, else the rate formula; the buyout      *)
(* price is round2(emissionPrice + interest) (100, 0.03, 365 days and an   *)
(* anchor give 103.00)                                                     *)
(***************************************************************************)
\* the days from the purchase date to the buyout date of the input of probe
ProbeDays == Max(0, ProbeBuyoutDate[1] - ProbePurchaseDate)

\* round2(emissionPrice + emissionPrice x rate x days/365) in thousandths,
\* the rate in thousandths: the whole thousandths of the sum, rounded to
\* hundredths
RateBuyoutPrice(emissionPrice, rate, days) ==
  10 * ((emissionPrice + (emissionPrice * rate * days) \div 365000 + 5) \div 10)

\* the buyout price the claim states for the OTS series of probe
OtsBuyoutPrice ==
  LET rate == At(probe.series.rateValues, 1)
      interest == At(probe.series.interestValues, 1)
  IN IF probe.anchor.hasDay /\ rate # <<>>
     THEN RateBuyoutPrice(probe.series.emissionPrice, rate[1], ProbeDays)
     ELSE IF interest # <<>>
     THEN 10 * ((probe.series.emissionPrice + interest[1] + 5) \div 10)
     ELSE RateBuyoutPrice(probe.series.emissionPrice, rate[1], ProbeDays)

\* the OTS series of probe has a buyout date and a rate or an interest amount
OtsWithData ==
  /\ probe.series.bondType = OtsType
  /\ ProbeBuyoutDate # <<>>
  /\ \/ At(probe.series.rateValues, 1) # <<>>
     \/ At(probe.series.interestValues, 1) # <<>>

C26_OtsBuyoutPrice ==
  (probe # NONE /\ OtsWithData)
    => /\ probe.event # NONE
          => /\ ~probe.event.isNull
             /\ Len(probe.event.values) = 2
             /\ probe.event.values[2] =
                  [date |-> ProbeBuyoutDate[1], price |-> OtsBuyoutPrice]
       /\ (/\ probe.daily # NONE
           /\ ProbePurchaseDate < ProbeBuyoutDate[1]
           /\ ProbeBuyoutDate[1] <= probe.today)
          => /\ ~probe.daily.isNull
             /\ probe.daily.values[Len(probe.daily.values)] =
                  [date |-> ProbeBuyoutDate[1], price |-> OtsBuyoutPrice]
       /\ (/\ probe.event # NONE
           /\ probe.anchor.hasDay
           /\ At(probe.series.rateValues, 1) = <<30>>
           /\ ProbeDays = 365)
          => probe.event.values[2].price = 103000

\* an anchored OTS series with the rate 0.03 and the interest amount 2.00
\* over 365 days has the buyout price 103.00 in both variants
C26_Witness ==
  /\ probe # NONE /\ probe.event # NONE /\ probe.daily # NONE
  /\ OtsWithData
  /\ probe.anchor.hasDay
  /\ At(probe.series.rateValues, 1) = <<30>>
  /\ At(probe.series.interestValues, 1) = <<2000>>
  /\ ProbeDays = 365
  /\ probe.event.values[2].price = 103000
  /\ ~probe.daily.isNull
  /\ Len(probe.daily.values) > 1
  /\ probe.daily.values[Len(probe.daily.values)].price = 103000

\* the same series without an anchor has the buyout price 102.00
C26_WitnessExplicitInterest ==
  /\ probe # NONE /\ probe.event # NONE
  /\ OtsWithData
  /\ ~probe.anchor.hasDay
  /\ At(probe.series.rateValues, 1) = <<30>>
  /\ At(probe.series.interestValues, 1) = <<2000>>
  /\ probe.event.values[2].price = 102000

(***************************************************************************)
(* C27: the N = max(len(rateValues), len(interestValues)) periods of a     *)
(* multi-period series are contiguous, from the purchase date to the       *)
(* buyout date; when the term in months is divisible by N every period     *)
(* spans term/N calendar months, otherwise the lengths in days differ by   *)
(* at most one, the longer periods first, and sum to the total day count   *)
(***************************************************************************)
ProbePeriodCount ==
  Max(Len(probe.series.rateValues), Len(probe.series.interestValues))

\* the term in months of the input of probe, -1 when it is not whole months
ProbeTermMonths ==
  termMonthsOf(parseMaturityMonths(probe.series.maturity),
               ProbePurchaseDate, ProbeBuyoutDate[1])

\* the periods buildScheduledValues splits the term of probe into
ProbePeriods ==
  buildPeriods(ProbePurchaseDate, ProbeBuyoutDate[1], ProbePeriodCount,
               resolvePeriodMonths(ProbeTermMonths, ProbePeriodCount))

\* a multi-period series with a buyout date and rate or interest columns, of
\* which a schedule has been built
MultiPeriod ==
  /\ probe.event # NONE \/ probe.daily # NONE
  /\ probe.series.bondType # OtsType
  /\ ProbeBuyoutDate # <<>>
  /\ ProbePeriodCount > 0

SpanDays(period) == period.end - period.start

RECURSIVE SumDays(_, _)
SumDays(periods, i) ==
  IF i > Len(periods) THEN 0
  ELSE SpanDays(periods[i]) + SumDays(periods, i + 1)

\* the months from the month of start to the month of end
MonthsApart(start, end) ==
  (Civil(end).y * 12 + Civil(end).m) - (Civil(start).y * 12 + Civil(start).m)

\* every period has data
EveryPeriodHasData ==
  \A i \in 1..ProbePeriodCount :
    \/ At(probe.series.rateValues, i) # <<>>
    \/ At(probe.series.interestValues, i) # <<>>

\* contiguous, from the purchase date to the buyout date, and the points of
\* the event-based schedule are at the ends of the periods
Contiguous(periods) ==
  /\ Len(periods) = ProbePeriodCount
  /\ periods[1].start = ProbePurchaseDate
  /\ periods[Len(periods)].end = ProbeBuyoutDate[1]
  /\ \A i \in 1..(Len(periods) - 1) : periods[i].end = periods[i + 1].start
  /\ (probe.event # NONE /\ EveryPeriodHasData)
       => /\ Len(probe.event.values) = Len(periods) + 1
          /\ \A i \in 1..Len(periods) :
               probe.event.values[i + 1].date = periods[i].end

\* the lengths in days differ by at most one, the longer periods first
EvenDays(periods) ==
  \A i, j \in 1..Len(periods) :
    i < j => SpanDays(periods[i]) - SpanDays(periods[j]) \in {0, 1}

C27_PeriodsSplitTerm ==
  (probe # NONE /\ MultiPeriod)
    => /\ Contiguous(ProbePeriods)
       /\ IF ProbeTermMonths > 0 /\ ProbeTermMonths % ProbePeriodCount = 0
          THEN \A i \in 1..Len(ProbePeriods) :
                 ProbePeriods[i].end
                   = addMonths(ProbePeriods[i].start,
                               ProbeTermMonths \div ProbePeriodCount)
          ELSE /\ EvenDays(ProbePeriods)
               /\ SumDays(ProbePeriods, 1)
                    = daysBetween(ProbePurchaseDate, ProbeBuyoutDate[1])
       /\ (/\ ProbePeriodCount = 2
           /\ ProbeTermMonths = 12)
          => \A i \in 1..2 : ProbePeriods[i].end
                               = addMonths(ProbePeriods[i].start, 6)

\* what holds of C27: with the buyout date after the purchase date, and of
\* the last period of a month split only that it ends in the month term/N
\* months after the month it starts in
C27_PeriodsSplitProperTerm ==
  (probe # NONE /\ MultiPeriod /\ ProbePurchaseDate < ProbeBuyoutDate[1])
    => /\ Contiguous(ProbePeriods)
       /\ IF ProbeTermMonths > 0 /\ ProbeTermMonths % ProbePeriodCount = 0
          THEN /\ \A i \in 1..(Len(ProbePeriods) - 1) :
                    ProbePeriods[i].end
                      = addMonths(ProbePeriods[i].start,
                                  ProbeTermMonths \div ProbePeriodCount)
               /\ \A i \in 1..Len(ProbePeriods) :
                    MonthsApart(ProbePeriods[i].start, ProbePeriods[i].end)
                      = ProbeTermMonths \div ProbePeriodCount
          ELSE /\ EvenDays(ProbePeriods)
               /\ SumDays(ProbePeriods, 1)
                    = daysBetween(ProbePurchaseDate, ProbeBuyoutDate[1])

\* a purchase on the 31st and a term of three months in three periods: the
\* second period ends on the 29th, and the last spans a month and a day
C27_LastPeriodLonger ==
  /\ probe # NONE /\ probe.event # NONE /\ MultiPeriod
  /\ ProbeTermMonths = 3 /\ ProbePeriodCount = 3
  /\ Civil(ProbePurchaseDate).d = 31
  /\ ProbePeriods[3].end # addMonths(ProbePeriods[3].start, 1)

\* two rates over twelve months from 2024-01-19: two periods of six months
C27_TwoHalfYears ==
  /\ probe # NONE /\ probe.event # NONE /\ MultiPeriod
  /\ ProbeTermMonths = 12 /\ ProbePeriodCount = 2
  /\ ProbePeriods = <<[start |-> DateOf(2024, 1, 19), end |-> DateOf(2024, 7, 19)],
                      [start |-> DateOf(2024, 7, 19), end |-> DateOf(2025, 1, 19)]>>

\* 178 days in three periods: 60, 59 and 59 days
C27_RemainderFirst ==
  /\ probe # NONE /\ probe.event # NONE /\ MultiPeriod
  /\ ProbeTermMonths = -1 /\ ProbePeriodCount = 3
  /\ SpanDays(ProbePeriods[1]) = 60
  /\ SpanDays(ProbePeriods[2]) = 59
  /\ SpanDays(ProbePeriods[3]) = 59

(***************************************************************************)
(* C28: in the event-based variant the running value after each period     *)
(* with data is round2(previous + accrued), accrued being the period's     *)
(* interest value if numeric and else previous x rate x periodDays/365; a  *)
(* period with neither emits no point and keeps the running value; the     *)
(* last price is the result of this iterated rounding from emissionPrice   *)
(***************************************************************************)
\* round2(value + interest) in thousandths
InterestPrice(value, interest) == 10 * ((value + interest + 5) \div 10)

\* the running value after period i, value being the one before it
RunningValue(i, value) ==
  LET rate == At(probe.series.rateValues, i)
      interest == At(probe.series.interestValues, i)
  IN IF interest # <<>> THEN InterestPrice(value, interest[1])
     ELSE IF rate # <<>>
     THEN RateBuyoutPrice(value, rate[1], Max(0, SpanDays(ProbePeriods[i])))
     ELSE value

\* the points of the periods from i on, value being the running value
RECURSIVE RunningPoints(_, _)
RunningPoints(i, value) ==
  IF i > ProbePeriodCount THEN <<>>
  ELSE IF /\ At(probe.series.rateValues, i) = <<>>
          /\ At(probe.series.interestValues, i) = <<>>
  THEN RunningPoints(i + 1, value)
  ELSE <<[date |-> ProbePeriods[i].end, price |-> RunningValue(i, value)]>>
       \o RunningPoints(i + 1, RunningValue(i, value))

\* the running value after the periods from i on
RECURSIVE FinalValue(_, _)
FinalValue(i, value) ==
  IF i > ProbePeriodCount THEN value
  ELSE FinalValue(i + 1, RunningValue(i, value))

C28_IteratedRounding ==
  (probe # NONE /\ probe.event # NONE /\ MultiPeriod)
    => /\ ~probe.event.isNull
       /\ probe.event.values
            = <<[date |-> ProbePurchaseDate,
                 price |-> InterestPrice(probe.series.emissionPrice, 0)]>>
              \o RunningPoints(1, probe.series.emissionPrice)
       /\ Len(probe.event.values) > 1
            => probe.event.values[Len(probe.event.values)].price
                 = FinalValue(1, probe.series.emissionPrice)

\* rates 0.02, none, 0.03 over three months from 2024-01-19: the second
\* period has no point, and the third accrues on the value of the first
C28_Witness ==
  /\ probe # NONE /\ probe.event # NONE /\ MultiPeriod
  /\ probe.series.rateValues = << <<20>>, <<>>, <<30>> >>
  /\ probe.series.interestValues = <<>>
  /\ ProbeTermMonths = 3 /\ ProbePurchaseDate = DateOf(2024, 1, 19)
  /\ probe.event.values
       = <<[date |-> DateOf(2024, 1, 19), price |-> 100000],
           [date |-> DateOf(2024, 2, 19), price |-> 100170],
           [date |-> DateOf(2024, 4, 19), price |-> 100430]>>

\* the interest value 1.50 of the second period is taken instead of a rate
C28_WitnessInterest ==
  /\ probe # NONE /\ probe.event # NONE /\ MultiPeriod
  /\ probe.series.interestValues = << <<>>, <<1500>>, <<>> >>
  /\ ProbeTermMonths = 3 /\ ProbePurchaseDate = DateOf(2024, 1, 19)
  /\ probe.event.values[3].price = probe.event.values[2].price + 1500
  /\ probe.event.values[4].price > probe.event.values[3].price

(***************************************************************************)
(* C29: the daily-interpolated schedule has exactly one point for every    *)
(* calendar day from the purchase date through min(today, buyoutDate),     *)
(* with no missing day, for OTS and multi-period series                    *)
(***************************************************************************)
DailyBuilt == probe # NONE /\ probe.daily # NONE /\ ~probe.daily.isNull

DailyDates == {probe.daily.values[k].date : k \in DOMAIN probe.daily.values}

\* the calendar days from the purchase date through min(today, buyoutDate)
DaysToShow == ProbePurchaseDate..Min(probe.today, ProbeBuyoutDate[1])

OnePointPerDay ==
  /\ Len(probe.daily.values) = Cardinality(DailyDates)
  /\ DailyDates = DaysToShow

C29_OnePointPerDay == DailyBuilt => OnePointPerDay

\* what holds of C29: the buyout date after the purchase date, and a rate
\* or an interest value in every period of a multi-period series
C29_OnePointPerDayOfPeriodsWithData ==
  (/\ DailyBuilt
   /\ ProbePurchaseDate < ProbeBuyoutDate[1]
   /\ probe.series.bondType # OtsType => EveryPeriodHasData)
    => OnePointPerDay

\* rates 0.02, none, 0.03 over three months from 2024-01-19, today after the
\* buyout date: no point for the days after 2024-02-19 up to 2024-03-19
C29_MissingDays ==
  /\ DailyBuilt
  /\ probe.series.bondType # OtsType
  /\ probe.series.rateValues = << <<20>>, <<>>, <<30>> >>
  /\ probe.series.interestValues = <<>>
  /\ ProbeTermMonths = 3 /\ ProbePurchaseDate = DateOf(2024, 1, 19)
  /\ probe.today > ProbeBuyoutDate[1]
  /\ DateOf(2024, 2, 19) \in DailyDates
  /\ DateOf(2024, 3, 20) \in DailyDates
  /\ \A d \in (DateOf(2024, 2, 19) + 1)..DateOf(2024, 3, 19) : d \notin DailyDates

\* every day of a year's term has its point
C29_WholeYear ==
  /\ DailyBuilt
  /\ probe.series.bondType # OtsType /\ EveryPeriodHasData
  /\ ProbePeriodCount = 2 /\ ProbeTermMonths = 12
  /\ probe.today > ProbeBuyoutDate[1]
  /\ Len(probe.daily.values) = ProbeBuyoutDate[1] - ProbePurchaseDate + 1
  /\ OnePointPerDay

(***************************************************************************)
(* C30: in the daily-interpolated variant, for a period entirely in the    *)
(* past, the first daily point after the period boundary is not lower than *)
(* the prior period's ending value, and the price at the period's last day *)
(* is the period's rounded ending value, except when the period's accrual  *)
(* is negative                                                             *)
(***************************************************************************)
\* the running value before period i: the ending value of the prior period
RECURSIVE ValueBefore(_)
ValueBefore(i) ==
  IF i = 1 THEN probe.series.emissionPrice
  ELSE RunningValue(i - 1, ValueBefore(i - 1))

PeriodHasData(i) ==
  \/ At(probe.series.rateValues, i) # <<>>
  \/ At(probe.series.interestValues, i) # <<>>

\* the accrual of period i is negative
NegativeAccrual(i) ==
  LET rate == At(probe.series.rateValues, i)
      interest == At(probe.series.interestValues, i)
  IN IF interest # <<>> THEN interest[1] < 0
     ELSE rate # <<>> /\ rate[1] < 0

\* the prices of the daily points dated date
DailyPricesAt(date) ==
  {probe.daily.values[k].price :
     k \in {j \in DOMAIN probe.daily.values : probe.daily.values[j].date = date}}

\* period i is entirely in the past and has data
PastPeriod(i) ==
  /\ PeriodHasData(i)
  /\ ProbePeriods[i].end <= probe.today

ContinuesAndEnds(i) ==
  /\ \A price \in DailyPricesAt(ProbePeriods[i].start + 1) :
       price >= ValueBefore(i)
  /\ DailyPricesAt(ProbePeriods[i].end) = {RunningValue(i, ValueBefore(i))}

C30_DailyContinues ==
  (DailyBuilt /\ MultiPeriod)
    => \A i \in 1..ProbePeriodCount :
         (PastPeriod(i) /\ ~NegativeAccrual(i)) => ContinuesAndEnds(i)

\* what holds of C30: with the buyout date after the purchase date
C30_DailyContinuesInProperTerm ==
  (DailyBuilt /\ MultiPeriod /\ ProbePurchaseDate < ProbeBuyoutDate[1])
    => \A i \in 1..ProbePeriodCount :
         (PastPeriod(i) /\ ~NegativeAccrual(i)) => ContinuesAndEnds(i)

\* the buyout date before the purchase date: the periods are empty, the
\* value of the second overwrites the point of the first at the purchase date
C30_Overwritten ==
  /\ DailyBuilt /\ MultiPeriod
  /\ ProbeBuyoutDate[1] < ProbePurchaseDate
  /\ PastPeriod(1) /\ ~NegativeAccrual(1)
  /\ DailyPricesAt(ProbePeriods[1].end) # {RunningValue(1, ValueBefore(1))}

\* the second of two half years starts on 2024-07-19 from the value 101.00
\* of the first: the point of 2024-07-20 is not below it, and the point of
\* 2025-01-19 has the ending value
C30_Witness ==
  /\ DailyBuilt /\ MultiPeriod
  /\ ProbePeriodCount = 2 /\ ProbeTermMonths = 12
  /\ ProbePurchaseDate = DateOf(2024, 1, 19)
  /\ PastPeriod(2) /\ ~NegativeAccrual(2)
  /\ ValueBefore(2) = 101000
  /\ DailyPricesAt(DateOf(2024, 7, 20)) = {101010}
  /\ DailyPricesAt(DateOf(2025, 1, 19)) = {RunningValue(2, 101000)}

\* the exception: with the interest value -0.50 the first daily point of
\* the second period is below the ending value of the first
C30_WitnessNegative ==
  /\ DailyBuilt /\ MultiPeriod
  /\ PastPeriod(2) /\ NegativeAccrual(2)
  /\ SpanDays(ProbePeriods[2]) > 1
  /\ \E price \in DailyPricesAt(ProbePeriods[2].start + 1) :
       price < ValueBefore(2)

(***************************************************************************)
(* The sheets of the workbook, lines 50-62, 147-167 and 247-366.  A sheet  *)
(* is the array of rows sheet_to_json gives with header: 1; a row is a     *)
(* sequence of cells, the source's index idx being position idx + 1.  A    *)
(* cell is Missing (null, undefined or a hole), [kind |-> "text"] with its *)
(* characters, [kind |-> "number"] with its value in thousandths, or a     *)
(* cell of the kinds of the maturity cell above.                           *)
(***************************************************************************)
Missing == [kind |-> "missing"]

TextCell(s) == [kind |-> "text", text |-> s]

NumberCell(n) == [kind |-> "number", value |-> n]

DateCell(d) == [kind |-> "date", date |-> d]

\* row[idx]
Cell(row, idx) == IF idx + 1 \in DOMAIN row THEN row[idx + 1] ELSE Missing

\* rows[idx] ?? []
Row(rows, idx) == IF idx + 1 \in DOMAIN rows THEN rows[idx + 1] ELSE <<>>

\* value === null || value === undefined || value === ''
IsEmptyCell(value) == value = Missing \/ value = TextCell(<<>>)

\* String.prototype.includes
includes(value, sub) ==
  \E i \in 1..(Len(value) - Len(sub) + 1) :
    SubSeq(value, i, i + Len(sub) - 1) = sub

\* String.prototype.replace(',', '.'): the first comma only
replaceComma(s) ==
  LET commas == {i \in DOMAIN s : s[i] = ","}
      first == CHOOSE i \in commas : \A j \in commas : i <= j
  IN IF commas = {} THEN s ELSE [i \in DOMAIN s |-> IF i = first THEN "." ELSE s[i]]

\* the digits after the point as thousandths (digits past the third dropped)
FractionOf(ds) ==
  LET three == SubSeq(ds \o <<"0", "0", "0">>, 1, 3)
  IN DigitsToNumber(three)

\* Number(s) of an unsigned decimal literal s: <<n>>, or <<>> for NaN
UnsignedNumberOf(s) ==
  LET points == {i \in DOMAIN s : s[i] = "."}
      point == CHOOSE i \in points : TRUE
      whole == IF points = {} THEN s ELSE SubSeq(s, 1, point - 1)
      fraction == IF points = {} THEN <<>> ELSE SubSeq(s, point + 1, Len(s))
  IN IF /\ Cardinality(points) <= 1
        /\ \A i \in DOMAIN s : i \in points \/ IsDigit(s[i])
        /\ Len(whole) + Len(fraction) > 0
     THEN <<1000 * DigitsToNumber(whole) + FractionOf(fraction)>>
     ELSE <<>>

\* Number(s) of a trimmed string: the empty string is 0
NumberOf(s) ==
  IF s = <<>> THEN <<0>>
  ELSE IF Head(s) = "-"
  THEN LET n == UnsignedNumberOf(Tail(s)) IN IF n = <<>> THEN <<>> ELSE <<-n[1]>>
  ELSE IF Head(s) = "+" THEN UnsignedNumberOf(Tail(s))
  ELSE UnsignedNumberOf(s)

\* toNumber(value), lines 50-62: <<n>>, or <<>> for null
toNumber(value) ==
  IF value.kind = "number" THEN <<value.value>>
  ELSE IF value.kind = "text" THEN NumberOf(replaceComma(Trim(value.text)))
  ELSE <<>>

RECURSIVE countNonEmptyFrom(_, _)
\* lines 145-155
countNonEmptyFrom(row, startIdx) ==
  IF startIdx >= Len(row) \/ IsEmptyCell(Cell(row, startIdx)) THEN 0
  ELSE 1 + countNonEmptyFrom(row, startIdx + 1)

\* lines 157-167
extractNumberRange(row, startIdx, count) ==
  [idx \in 1..count |-> toNumber(Cell(row, startIdx + idx - 1))]

\* headerRow.findIndex(value => typeof value === 'string' &&
\* value.includes(text))
findIndex(row, text) ==
  LET hits == {i \in DOMAIN row :
                 row[i].kind = "text" /\ includes(row[i].text, text)}
  IN IF hits = {} THEN -1
     ELSE (CHOOSE i \in hits : \A j \in hits : i <= j) - 1

RateHeader == <<"O","p","r","o","c","e","n","t","o","w","a","n","i","e">>

InterestHeader == <<"O","d","s","e","t","k","i">>

\* lines 263-269
hasSubHeaderOf(subHeaderRow) ==
  /\ IsEmptyCell(Cell(subHeaderRow, 0))
  /\ \E i \in DOMAIN subHeaderRow :
       subHeaderRow[i].kind = "text" /\ Len(Trim(subHeaderRow[i].text)) > 0

\* lines 271-280
rateCountOf(subHeaderRow, rateIdx, interestIdx, hasSubHeader) ==
  LET rateCount == IF hasSubHeader THEN countNonEmptyFrom(subHeaderRow, rateIdx)
                   ELSE IF interestIdx > rateIdx
                   THEN Max(1, interestIdx - rateIdx)
                   ELSE 1
  IN IF rateCount <= 0 THEN 1 ELSE rateCount

\* lines 282-290
interestCountOf(subHeaderRow, interestIdx, hasSubHeader) ==
  LET interestCount == IF hasSubHeader
                       THEN countNonEmptyFrom(subHeaderRow, interestIdx)
                       ELSE 1
  IN IF interestIdx < 0 THEN 0
     ELSE IF interestCount <= 0 THEN 1 ELSE interestCount

\* lines 292-299, the rate header being at rateIdx
sheetMetaAt(subHeaderRow, rateIdx, interestIdx, hasSubHeader) ==
  [dataStartRow |-> IF hasSubHeader THEN 2 ELSE 1,
   rateIdx |-> rateIdx,
   interestIdx |-> interestIdx,
   rateCount |-> rateCountOf(subHeaderRow, rateIdx, interestIdx, hasSubHeader),
   interestCount |-> interestCountOf(subHeaderRow, interestIdx, hasSubHeader),
   hasSubHeader |-> hasSubHeader]

layoutWithoutRateHeader(rows) ==
  sheetMetaAt(Row(rows, 1), findIndex(Row(rows, 0), RateHeader),
              findIndex(Row(rows, 0), InterestHeader),
              hasSubHeaderOf(Row(rows, 1)))

\* getSheetMeta(sheetName, rows) when the sheet's meta is not cached, lines
\* 251-301: the meta, or NONE for null
getSheetMeta(rows) ==
  IF findIndex(Row(rows, 0), RateHeader) < 0 THEN NONE
  ELSE sheetMetaAt(Row(rows, 1), findIndex(Row(rows, 0), RateHeader),
                   findIndex(Row(rows, 0), InterestHeader),
                   hasSubHeaderOf(Row(rows, 1)))

\* findNextHeaderIndex(row, startIdx) of the second copy, lines 1049-1057:
\* the next cell with a text that is not blank, or -1
findNextHeaderIndex(row, startIdx) ==
  LET hits == {i \in DOMAIN row :
                 /\ i - 1 > startIdx
                 /\ row[i].kind = "text"
                 /\ Len(Trim(row[i].text)) > 0}
  IN IF hits = {} THEN -1
     ELSE (CHOOSE i \in hits : \A j \in hits : i <= j) - 1

\* lines 1211-1216 of the second copy: rateLimit, -1 for null
rateLimitOf(headerRow, rateIdx, interestIdx) ==
  LET nextHeaderAfterRate == IF interestIdx > rateIdx THEN interestIdx
                             ELSE findNextHeaderIndex(headerRow, rateIdx)
  IN IF nextHeaderAfterRate > rateIdx THEN nextHeaderAfterRate - rateIdx
     ELSE -1

\* lines 1213-1220 of the second copy: interestLimit, -1 for null
interestLimitOf(headerRow, interestIdx) ==
  LET nextHeaderAfterInterest ==
        IF interestIdx >= 0 THEN findNextHeaderIndex(headerRow, interestIdx)
        ELSE -1
  IN IF nextHeaderAfterInterest > interestIdx
     THEN nextHeaderAfterInterest - interestIdx
     ELSE -1

\* lines 1223-1234 of the second copy
rateCountLimited(subHeaderRow, rateIdx, hasSubHeader, rateLimit) ==
  LET counted == countNonEmptyFrom(subHeaderRow, rateIdx)
      rateCount == IF hasSubHeader
                   THEN (IF rateLimit # -1 THEN Min(counted, rateLimit)
                         ELSE counted)
                   ELSE IF rateLimit # -1 THEN Max(1, rateLimit)
                   ELSE 1
  IN IF rateCount <= 0 THEN 1 ELSE rateCount

\* lines 1236-1247 of the second copy
interestCountLimited(subHeaderRow, interestIdx, hasSubHeader, interestLimit) ==
  LET counted == IF hasSubHeader
                 THEN countNonEmptyFrom(subHeaderRow, interestIdx)
                 ELSE 1
      interestCount == IF interestLimit # -1 THEN Min(counted, interestLimit)
                       ELSE counted
  IN IF interestIdx < 0 THEN 0
     ELSE IF interestCount <= 0 THEN 1 ELSE interestCount

\* lines 1249-1256 of the second copy, the rate header being at rateIdx
sheetMetaLimitedAt(headerRow, subHeaderRow, rateIdx, interestIdx, hasSubHeader) ==
  [dataStartRow |-> IF hasSubHeader THEN 2 ELSE 1,
   rateIdx |-> rateIdx,
   interestIdx |-> interestIdx,
   rateCount |-> rateCountLimited(subHeaderRow, rateIdx, hasSubHeader,
                                  rateLimitOf(headerRow, rateIdx, interestIdx)),
   interestCount |-> interestCountLimited(subHeaderRow, interestIdx,
                                          hasSubHeader,
                                          interestLimitOf(headerRow, interestIdx)),
   hasSubHeader |-> hasSubHeader]

\* getSheetMeta(sheetName, rows) of the second copy when the sheet's meta is
\* not cached, lines 1187-1259
getSheetMetaLimited(rows) ==
  IF findIndex(Row(rows, 0), RateHeader) < 0 THEN NONE
  ELSE sheetMetaLimitedAt(Row(rows, 0), Row(rows, 1),
                          findIndex(Row(rows, 0), RateHeader),
                          findIndex(Row(rows, 0), InterestHeader),
                          hasSubHeaderOf(Row(rows, 1)))

RECURSIVE DigitsOf(_)
\* the decimal digits of a natural number
DigitsOf(n) ==
  IF n < 10 THEN <<DigitChars[n + 1]>>
  ELSE DigitsOf(n \div 10) \o <<DigitChars[(n % 10) + 1]>>

\* String(row[0] ?? '') of a text, a missing cell or a whole number
StringOf(value) ==
  IF value.kind = "text" THEN value.text
  ELSE IF value.kind = "number" THEN DigitsOf(value.value \div 1000)
  ELSE <<>>

\* lines 309-312
seriesIdOf(row) == normalizeSymbol(StringOf(Cell(row, 0)))

\* lines 320-335, the row being accepted
seriesRecord(row, meta, bondType) ==
  [seriesId |-> seriesIdOf(row),
   bondType |-> bondType,
   saleStart |-> toDate(Cell(row, 3))[1],
   saleEnd |-> toDate(Cell(row, 4))[1],
   emissionPrice |-> toNumber(Cell(row, 5))[1],
   maturity |-> Cell(row, 2),
   rateValues |-> IF meta.rateIdx >= 0
                  THEN extractNumberRange(row, meta.rateIdx, meta.rateCount)
                  ELSE <<>>,
   interestValues |-> IF meta.interestIdx >= 0
                      THEN extractNumberRange(row, meta.interestIdx,
                                              meta.interestCount)
                      ELSE <<>>]

\* parseSeriesRow(row, meta, bondType), lines 304-336: the series, or NONE
parseSeriesRow(row, meta, bondType) ==
  IF seriesIdOf(row) = <<>> \/ BOND_SYMBOL_PATTERN(seriesIdOf(row)) = NONE
  THEN NONE
  ELSE IF \/ toDate(Cell(row, 3)) = <<>>
          \/ toDate(Cell(row, 4)) = <<>>
          \/ toNumber(Cell(row, 5)) = <<>>
  THEN NONE
  ELSE seriesRecord(row, meta, bondType)

\* map.set(series.seriesId, series): the map as the set of its values
mapSet(map, series) ==
  {r \in map : r.seriesId # series.seriesId} \cup {series}

RECURSIVE loadRows(_, _, _, _, _)
\* lines 354-363 from rowIndex on
loadRows(rows, meta, bondType, rowIndex, map) ==
  IF rowIndex >= Len(rows) THEN map
  ELSE IF Row(rows, rowIndex) = <<>>
  THEN loadRows(rows, meta, bondType, rowIndex + 1, map)
  ELSE LET series == parseSeriesRow(Row(rows, rowIndex), meta, bondType)
       IN loadRows(rows, meta, bondType, rowIndex + 1,
                   IF series # NONE THEN mapSet(map, series) ELSE map)

\* loadBondSeries(bondType) on the rows of the sheet, lines 347-365: the map,
\* or NONE for null
loadBondSeries(rows, meta, bondType) ==
  IF meta = NONE THEN NONE
  ELSE [series |-> loadRows(rows, meta, bondType, meta.dataStartRow, {})]

(***************************************************************************)
(* Sheets to parse: a header row, a second row that is a sub-header or the *)
(* first data row, and three data rows of which the middle one varies      *)
(***************************************************************************)
Label == TextCell(<<"n", "a", "g">>)

Blank == TextCell(<<" ", " ">>)

Word == TextCell(<<"a", "b", "c">>)

\* the first six cells of a header row
HeaderStart == <<Label, Label, Label, Label, Label, Label>>

HeaderRows ==
  {\* the rate header at 6 and the interest header at 9, over merged cells
   HeaderStart \o <<TextCell(RateHeader), Missing, Missing,
                    TextCell(InterestHeader), Missing, Missing>>,
   \* no interest header
   HeaderStart \o <<TextCell(RateHeader), Missing, Missing>>,
   \* the interest header to the left of the rate header
   HeaderStart \o <<TextCell(InterestHeader), Missing,
                    TextCell(RateHeader), Missing>>,
   \* no rate header
   HeaderStart \o <<Label, Missing, Missing, TextCell(InterestHeader)>>,
   \* the headers within longer texts, next to one another
   HeaderStart \o <<TextCell(RateHeader \o <<" ", "%">>),
                    TextCell(<<"(">> \o InterestHeader \o <<")">>)>>,
   \* another header to the right of the rate header, and no interest header
   HeaderStart \o <<TextCell(RateHeader), Missing, Label>>,
   \* the interest header, the rate header, a gap and another header
   HeaderStart \o <<TextCell(InterestHeader), TextCell(RateHeader), Missing,
                    Label>>,
   \* the rate header in lower case
   HeaderStart \o <<TextCell(<<"o">> \o Tail(RateHeader)), Missing, Missing,
                    TextCell(InterestHeader)>>}

Year == TextCell(<<"r", "o", "k">>)

\* the second rows that are not data rows; <<>> stands for none
SubHeaderRows ==
  {<<>>,
   \* texts under both groups, next to one another
   <<Missing, Missing, Missing, Missing, Missing, Missing,
     Year, Year, Year, Year, Year, Year>>,
   \* texts under two columns of each group
   <<Missing, Missing, Missing, Missing, Missing, Missing,
     Year, Year, Missing, Year, Year>>,
   \* '' first, and no text under the header columns 6 and 9
   <<TextCell(<<>>), Missing, Missing, Missing, Missing, Missing,
     Missing, Year, Year>>,
   \* numbers only
   <<Missing, Missing, Missing, Missing, Missing, Missing,
     NumberCell(1000), NumberCell(2000)>>,
   \* a text, a blank text and a number
   <<Missing, Missing, Missing, Missing, Missing, Missing,
     Year, Blank, NumberCell(3000)>>}

IdRor0127 == <<"R","O","R","0","1","2","7">>

IdRor0227 == <<"R","O","R","0","2","2","7">>

IdEdo0134 == <<"E","D","O","0","1","3","4">>

TermCell == [kind |-> "term", amount |-> 12, unit |-> "miesiecy"]

\* a data row of twelve cells
DataRow(id, saleStart, saleEnd, price, cells) ==
  <<id, Label, TermCell, saleStart, saleEnd, price>> \o cells

GoodCells ==
  <<NumberCell(20), NumberCell(25), NumberCell(30),
    NumberCell(1000), Missing, NumberCell(0)>>

\* cells that are not numbers, a numeric zero and a decimal comma
MixedCells ==
  <<Missing, TextCell(<<>>), Blank, Word, NumberCell(0),
    TextCell(<<"2", ",", "5">>)>>

TextNumberCells ==
  <<TextCell(<<"0">>), TextCell(<<" ", "3", ".", "5", " ">>),
    DateCell(DateOf(2024, 1, 2)), TextCell(<<"1", ",", "2", ",", "3">>),
    TextCell(<<"-", "1">>), Missing>>

SaleStartCell == DateCell(DateOf(2024, 1, 2))

SaleEndCell == DateCell(DateOf(2024, 1, 31))

PriceCell == NumberCell(100000)

FirstRow == DataRow(TextCell(IdRor0127), SaleStartCell, SaleEndCell, PriceCell, GoodCells)

LastRow == DataRow(TextCell(IdRor0227), SaleStartCell, SaleEndCell, PriceCell, GoodCells)

\* the middle rows that vary in the identifier
IdCells ==
  {TextCell(IdEdo0134),
   TextCell(<<" ", "e", "d", "o", "0", "1", "3", "4", " ">>),
   TextCell(IdEdo0134 \o <<".", "1", "9">>),
   TextCell(<<"E", "D", "0", "1", "3", "4">>),
   TextCell(IdRor0127),
   Missing,
   NumberCell(134000)}

PriceCells ==
  {NumberCell(0), NumberCell(-5000), TextCell(<<>>), Blank, Missing, Word,
   TextCell(<<"1", "0", "0", ",", "5">>), DateCell(DateOf(2024, 1, 2))}

MiddleRows ==
  {DataRow(id, SaleStartCell, SaleEndCell, NumberCell(99000), GoodCells) : id \in IdCells}
  \cup {DataRow(TextCell(IdEdo0134), SaleStartCell, SaleEndCell, price, GoodCells) :
          price \in PriceCells}
  \cup {DataRow(TextCell(IdEdo0134), SaleStartCell, SaleEndCell, PriceCell, cells) :
          cells \in {MixedCells, TextNumberCells}}
  \cup {DataRow(TextCell(IdEdo0134), Missing, SaleEndCell, PriceCell, GoodCells),
        DataRow(TextCell(IdEdo0134), SaleStartCell, Word, PriceCell, GoodCells),
        DataRow(TextCell(IdEdo0134), SaleEndCell, SaleStartCell, PriceCell, GoodCells),
        \* a row that ends after the price, and an empty row
        <<TextCell(IdEdo0134), Label, TermCell, SaleStartCell, SaleEndCell, PriceCell>>,
        <<>>}

\* the rows of a sheet
SheetRows(header, subHeader, middle) ==
  <<header>> \o (IF subHeader = <<>> THEN <<>> ELSE <<subHeader>>)
  \o <<FirstRow, middle, LastRow>>

Sheets ==
  {SheetRows(header, subHeader, middle) :
     header \in HeaderRows, subHeader \in SubHeaderRows, middle \in MiddleRows}

\* the sheet is that of the bond type ROR
SheetType == <<"R","O","R">>

\* not called yet
Uncalled == [uncalled |-> TRUE]

\* the file holds two copies of the program: the first at lines 1-891, the
\* second at lines 893-1879
Copies == {"first", "second"}

\* getSheetMeta of the copy that runs
getSheetMetaOf(copy, rows) ==
  IF copy = "first" THEN getSheetMeta(rows) ELSE getSheetMetaLimited(rows)

InitSheet ==
  /\ EngineInit
  /\ holdings = InitialHoldings
  /\ quoteStore = {}
  /\ tz = 1
  /\ probe \in [copy : Copies, rows : Sheets, meta : {Uncalled},
                map : {Uncalled}, asked : {<<>>}, found : {Uncalled}]

\* getSheetMeta(sheetName, rows), lines 247-302: sheetMetaCache holds the
\* meta once one is found
GetSheetMeta ==
  /\ probe.meta = Uncalled
  /\ probe' = [probe EXCEPT !.meta = getSheetMetaOf(probe.copy, probe.rows)]
  /\ UNCHANGED engineVars

\* the meta getSheetMeta returns to loadBondSeries: the cached one, if any
metaFor(copy, cached, rows) ==
  IF cached # Uncalled /\ cached # NONE THEN cached
  ELSE getSheetMetaOf(copy, rows)

\* loadBondSeries(bondType) on the fetched workbook, lines 338-366
LoadBondSeries ==
  /\ probe.map = Uncalled
  /\ probe' = [probe EXCEPT
                 !.meta = metaFor(probe.copy, probe.meta, probe.rows),
                 !.map = loadBondSeries(probe.rows,
                                        metaFor(probe.copy, probe.meta, probe.rows),
                                        SheetType)]
  /\ UNCHANGED engineVars

\* the map loadBondSeries returns: the cached one, if any (lines 339-342)
mapFor(cached, rows, meta) ==
  IF cached # Uncalled /\ cached # NONE THEN cached
  ELSE loadBondSeries(rows, meta, SheetType)

\* seriesMap.get(seriesId) ?? null, or null without a map (lines 370-373)
seriesIn(map, seriesId) ==
  IF map = NONE \/ ~\E r \in map.series : r.seriesId = seriesId THEN NONE
  ELSE CHOOSE r \in map.series : r.seriesId = seriesId

\* the series identifiers the engine asks for
AskedIds == {IdRor0127, IdEdo0134}

\* getBondSeries(seriesId, bondType), lines 368-374
GetBondSeries ==
  /\ probe.found = Uncalled
  /\ \E seriesId \in AskedIds :
       probe' = [probe EXCEPT
                   !.meta = IF probe.map # Uncalled /\ probe.map # NONE
                            THEN probe.meta
                            ELSE metaFor(probe.copy, probe.meta, probe.rows),
                   !.map = mapFor(probe.map, probe.rows,
                                  metaFor(probe.copy, probe.meta, probe.rows)),
                   !.asked = seriesId,
                   !.found = seriesIn(mapFor(probe.map, probe.rows,
                                             metaFor(probe.copy, probe.meta, probe.rows)),
                                      seriesId)]
  /\ UNCHANGED engineVars

NextSheet == GetSheetMeta \/ LoadBondSeries \/ GetBondSeries

SpecSheet == InitSheet /\ [][NextSheet]_vars

(***************************************************************************)
(* C31: every record of the series catalog has a seriesId of exactly three *)
(* letters and four digits, both sale-window dates valid and an            *)
(* emissionPrice above 0; a row failing any of these is dropped without an *)
(* error and without affecting the other rows                              *)
(***************************************************************************)
\* loadBondSeries has returned a map
Loaded == probe.map # Uncalled /\ probe.map # NONE

\* the data rows of the sheet of probe
DataRows ==
  {i \in 1..Len(probe.rows) : i > probe.meta.dataStartRow /\ probe.rows[i] # <<>>}

\* three letters and four digits
IsSeriesId(s) ==
  /\ Len(s) = 7
  /\ \A i \in 1..3 : s[i] \in Range(UpperChars)
  /\ \A i \in 4..7 : s[i] \in Range(DigitChars)

\* the identifier the row is stored under: the first cell's text, trimmed
\* and in upper case
StoredId(row) ==
  IF Cell(row, 0).kind = "text" THEN upperCased(Trim(Cell(row, 0).text))
  ELSE <<>>

\* the row has what the claim asks of a record
ValidRow(row) ==
  /\ IsSeriesId(StoredId(row))
  /\ Cell(row, 3).kind = "date"
  /\ Cell(row, 4).kind = "date"
  /\ toNumber(Cell(row, 5)) # <<>>
  /\ toNumber(Cell(row, 5))[1] > 0

\* the rows of the sheet without the rows that are not valid
RECURSIVE ValidRowsOnly(_, _)
ValidRowsOnly(rows, i) ==
  IF i > Len(rows) THEN <<>>
  ELSE (IF i > probe.meta.dataStartRow /\ rows[i] # <<>> /\ ~ValidRow(rows[i])
        THEN <<>> ELSE <<rows[i]>>)
       \o ValidRowsOnly(rows, i + 1)

C31_CatalogRecordsValid ==
  (probe # NONE /\ "rows" \in DOMAIN probe /\ Loaded)
    => /\ \A r \in probe.map.series :
            /\ IsSeriesId(r.seriesId)
            /\ r.emissionPrice > 0
            /\ \E i \in DataRows :
                 /\ ValidRow(probe.rows[i])
                 /\ StoredId(probe.rows[i]) = r.seriesId
                 /\ r.saleStart = Cell(probe.rows[i], 3).date
                 /\ r.saleEnd = Cell(probe.rows[i], 4).date
       /\ probe.map = loadBondSeries(ValidRowsOnly(probe.rows, 1), probe.meta,
                                     SheetType)

\* the row has what parseSeriesRow asks: the identifier may end in a point
\* and one or two digits, and the price is any number
AcceptedRow(row) ==
  /\ \/ IsSeriesId(StoredId(row))
     \/ /\ Len(StoredId(row)) \in {9, 10}
        /\ IsSeriesId(SubSeq(StoredId(row), 1, 7))
        /\ StoredId(row)[8] = "."
        /\ \A i \in 9..Len(StoredId(row)) : StoredId(row)[i] \in Range(DigitChars)
  /\ Cell(row, 3).kind = "date"
  /\ Cell(row, 4).kind = "date"
  /\ toNumber(Cell(row, 5)) # <<>>

RECURSIVE AcceptedRowsOnly(_, _)
AcceptedRowsOnly(rows, i) ==
  IF i > Len(rows) THEN <<>>
  ELSE (IF i > probe.meta.dataStartRow /\ rows[i] # <<>> /\ ~AcceptedRow(rows[i])
        THEN <<>> ELSE <<rows[i]>>)
       \o AcceptedRowsOnly(rows, i + 1)

\* what holds of C31: the records are those of the rows parseSeriesRow
\* accepts, and the other rows are dropped without a trace
C31_CatalogRecordsAccepted ==
  (probe # NONE /\ "rows" \in DOMAIN probe /\ Loaded)
    => /\ \A r \in probe.map.series :
            \E i \in DataRows :
              /\ AcceptedRow(probe.rows[i])
              /\ StoredId(probe.rows[i]) = r.seriesId
              /\ r.saleStart = Cell(probe.rows[i], 3).date
              /\ r.saleEnd = Cell(probe.rows[i], 4).date
              /\ r.emissionPrice = toNumber(Cell(probe.rows[i], 5))[1]
       /\ \A i \in DataRows :
            AcceptedRow(probe.rows[i])
              => \E r \in probe.map.series : r.seriesId = StoredId(probe.rows[i])
       /\ probe.map = loadBondSeries(AcceptedRowsOnly(probe.rows, 1), probe.meta,
                                     SheetType)

\* a row whose price cell is an empty text is stored with the price 0
C31_StoredAtPriceZero ==
  /\ probe # NONE /\ "rows" \in DOMAIN probe /\ Loaded
  /\ \E i \in DataRows :
       /\ Cell(probe.rows[i], 5) = TextCell(<<>>)
       /\ \E r \in probe.map.series :
            r.seriesId = IdEdo0134 /\ r.emissionPrice = 0

\* a row whose first cell is EDO0134.19 is stored under that identifier
C31_StoredWithSuffix ==
  /\ probe # NONE /\ "rows" \in DOMAIN probe /\ Loaded
  /\ \E r \in probe.map.series : r.seriesId = IdEdo0134 \o <<".", "1", "9">>

\* a row with the identifier ED0134 is dropped, and the rows around it are
\* stored
C31_RowDropped ==
  /\ probe # NONE /\ "rows" \in DOMAIN probe /\ Loaded
  /\ \E i \in DataRows : StoredId(probe.rows[i]) = <<"E", "D", "0", "1", "3", "4">>
  /\ {r.seriesId : r \in probe.map.series} = {IdRor0127, IdRor0227}

(***************************************************************************)
(* C32: a rate or interest cell of the column span that is not a number    *)
(* (missing, empty string, blank text, non-numeric text) becomes null in   *)
(* rateValues/interestValues and never 0; only a numeric zero yields 0     *)
(***************************************************************************)
\* the texts of the sheets that are numbers, with their values
TextValues ==
  {[text |-> <<"0">>, value |-> 0],
   [text |-> <<" ", "3", ".", "5", " ">>, value |-> 3500],
   [text |-> <<"2", ",", "5">>, value |-> 2500],
   [text |-> <<"-", "1">>, value |-> -1000]}

\* what the claim has for a cell: <<n>> for a number, <<>> for null
ValueOfCell(cell) ==
  IF cell.kind = "number" THEN <<cell.value>>
  ELSE IF cell.kind = "text" /\ \E t \in TextValues : t.text = cell.text
  THEN <<(CHOOSE t \in TextValues : t.text = cell.text).value>>
  ELSE <<>>

\* the cells of the column span of a group in a row, with the values stored
SpanAsStated(row, startIdx, count, values) ==
  /\ Len(values) = count
  /\ \A k \in 1..count : values[k] = ValueOfCell(Cell(row, startIdx + k - 1))

\* the cells of the span of a stored row are converted as ValueOfCell says
RowAsStated(row, r) ==
  /\ SpanAsStated(row, probe.meta.rateIdx, probe.meta.rateCount, r.rateValues)
  /\ SpanAsStated(row, probe.meta.interestIdx, probe.meta.interestCount,
                  r.interestValues)

C32_NonNumericCellsNull ==
  (probe # NONE /\ Loaded)
    => \A i \in DataRows : \A r \in probe.map.series :
         (AcceptedRow(probe.rows[i]) /\ r.seriesId = StoredId(probe.rows[i])
          /\ r.emissionPrice = toNumber(Cell(probe.rows[i], 5))[1])
           => RowAsStated(probe.rows[i], r)

\* the cell is an empty or a blank text
IsBlankText(cell) == cell.kind = "text" /\ Trim(cell.text) = <<>>

\* what holds of C32: as stated but for the empty and the blank texts, which
\* become 0
SpanAsConverted(row, startIdx, count, values) ==
  /\ Len(values) = count
  /\ \A k \in 1..count :
       values[k] = IF IsBlankText(Cell(row, startIdx + k - 1)) THEN <<0>>
                   ELSE ValueOfCell(Cell(row, startIdx + k - 1))

C32_BlankCellsZero ==
  (probe # NONE /\ Loaded)
    => \A i \in DataRows : \A r \in probe.map.series :
         (AcceptedRow(probe.rows[i]) /\ r.seriesId = StoredId(probe.rows[i])
          /\ r.emissionPrice = toNumber(Cell(probe.rows[i], 5))[1])
           => /\ SpanAsConverted(probe.rows[i], probe.meta.rateIdx,
                                 probe.meta.rateCount, r.rateValues)
              /\ SpanAsConverted(probe.rows[i], probe.meta.interestIdx,
                                 probe.meta.interestCount, r.interestValues)

\* the rate cells missing, '' and '  ' of a row are stored as null, 0 and 0
C32_BlankStoredAsZero ==
  /\ probe # NONE /\ Loaded
  /\ probe.meta.rateIdx = 6 /\ probe.meta.rateCount = 3
  /\ \E i \in DataRows :
       /\ Cell(probe.rows[i], 6) = Missing
       /\ Cell(probe.rows[i], 7) = TextCell(<<>>)
       /\ Cell(probe.rows[i], 8) = Blank
       /\ \E r \in probe.map.series :
            /\ r.seriesId = IdEdo0134
            /\ r.rateValues = << <<>>, <<0>>, <<0>> >>

(***************************************************************************)
(* C33: without a cell holding the rate header text in the first row the   *)
(* layout detection returns null and no series of the sheet is produced,   *)
(* so that the held symbols of the bond type are skipped; a missing        *)
(* interest header alone does not make the sheet unusable, the interest    *)
(* column count being 0                                                    *)
(***************************************************************************)
\* the first row has a text cell containing the header text
HasHeader(text) ==
  \E i \in DOMAIN probe.rows[1] :
    /\ probe.rows[1][i].kind = "text"
    /\ \E a, b \in 0..Len(probe.rows[1][i].text) :
         SubSeq(probe.rows[1][i].text, a + 1, b) = text

C33_RateHeaderRequired ==
  probe # NONE
    => /\ ~HasHeader(RateHeader)
          => /\ probe.meta \in {Uncalled, NONE}
             /\ probe.map \in {Uncalled, NONE}
             /\ probe.found \in {Uncalled, NONE}
       /\ (HasHeader(RateHeader) /\ ~HasHeader(InterestHeader))
          => /\ probe.meta # Uncalled
                => /\ probe.meta # NONE
                   /\ probe.meta.interestCount = 0
             /\ probe.map # Uncalled
                => /\ Loaded
                   /\ IdRor0227 \in {r.seriesId : r \in probe.map.series}
                   /\ \A r \in probe.map.series : r.interestValues = <<>>
             /\ (probe.found # Uncalled /\ probe.asked = IdRor0127)
                => probe.found # NONE

\* the rate header is written in lower case: no layout, no map, no series
C33_Witness ==
  /\ probe # NONE
  /\ ~HasHeader(RateHeader) /\ HasHeader(InterestHeader)
  /\ probe.meta = NONE /\ probe.map = NONE
  /\ probe.asked = IdRor0127 /\ probe.found = NONE

\* no interest header: the series are produced with rates only
C33_WitnessNoInterestHeader ==
  /\ probe # NONE
  /\ HasHeader(RateHeader) /\ ~HasHeader(InterestHeader)
  /\ probe.meta # Uncalled /\ probe.meta # NONE /\ probe.meta.interestCount = 0
  /\ probe.asked = IdRor0127 /\ probe.found # Uncalled /\ probe.found # NONE
  /\ Len(probe.found.rateValues) > 0

(***************************************************************************)
(* C34: without a sub-header row the data start at row index 1; the rate   *)
(* group is 1 wide unless the interest header lies to the right of the     *)
(* rate header, and then interestColumn - rateColumn wide; the interest    *)
(* group is 1 wide if there is an interest header and 0 wide otherwise     *)
(***************************************************************************)
\* the cell i of the first row holds the header text
HeaderAt(i, text) ==
  /\ probe.rows[1][i].kind = "text"
  /\ \E a, b \in 0..Len(probe.rows[1][i].text) :
       SubSeq(probe.rows[1][i].text, a + 1, b) = text

\* the column index of the first cell holding the header text, -1 for none
HeaderColumn(text) ==
  IF \E i \in DOMAIN probe.rows[1] : HeaderAt(i, text)
  THEN (CHOOSE i \in DOMAIN probe.rows[1] :
          /\ HeaderAt(i, text)
          /\ \A j \in 1..(i - 1) : ~HeaderAt(j, text)) - 1
  ELSE -1

\* the second row has an empty first cell and a text that is not blank
SecondRowIsSubHeader ==
  /\ Len(probe.rows) >= 2
  /\ \/ probe.rows[2] = <<>>
     \/ probe.rows[2][1] \in {Missing, TextCell(<<>>)}
  /\ \E i \in DOMAIN probe.rows[2] :
       /\ probe.rows[2][i].kind = "text"
       /\ \E k \in DOMAIN probe.rows[2][i].text :
            probe.rows[2][i].text[k] \notin SpaceChars

\* getSheetMeta has found a layout
MetaFound == probe.meta # Uncalled /\ probe.meta # NONE

C34_LayoutWithoutSubHeader ==
  (probe # NONE /\ MetaFound /\ ~SecondRowIsSubHeader)
    => /\ ~probe.meta.hasSubHeader
       /\ probe.meta.dataStartRow = 1
       /\ probe.meta.rateCount
            = IF HeaderColumn(InterestHeader) > HeaderColumn(RateHeader)
              THEN HeaderColumn(InterestHeader) - HeaderColumn(RateHeader)
              ELSE 1
       /\ probe.meta.interestCount
            = IF HeaderColumn(InterestHeader) >= 0 THEN 1 ELSE 0
       /\ Loaded
          => /\ \A r \in probe.map.series :
                  /\ Len(r.rateValues) = probe.meta.rateCount
                  /\ Len(r.interestValues) = probe.meta.interestCount
             /\ probe.rows[2] = FirstRow
                  => IdRor0127 \in {r.seriesId : r \in probe.map.series}

\* the column index of the first text that is not blank to the right of the
\* column idx of the first row, -1 for none
NextHeaderColumn(idx) ==
  LET later == {i \in DOMAIN probe.rows[1] :
                  /\ i - 1 > idx
                  /\ probe.rows[1][i].kind = "text"
                  /\ \E k \in DOMAIN probe.rows[1][i].text :
                       probe.rows[1][i].text[k] \notin SpaceChars}
  IN IF later = {} THEN -1
     ELSE (CHOOSE i \in later : \A j \in later : i <= j) - 1

\* what holds of C34: the first copy is as the claim has it; in the second
\* copy the rate group extends to the next header of any text when the
\* interest header is not to the right
C34_LayoutWithoutSubHeaderByCopy ==
  (probe # NONE /\ MetaFound /\ ~SecondRowIsSubHeader)
    => /\ ~probe.meta.hasSubHeader
       /\ probe.meta.dataStartRow = 1
       /\ probe.meta.rateCount
            = IF HeaderColumn(InterestHeader) > HeaderColumn(RateHeader)
              THEN HeaderColumn(InterestHeader) - HeaderColumn(RateHeader)
              ELSE IF /\ probe.copy = "second"
                      /\ NextHeaderColumn(HeaderColumn(RateHeader)) >= 0
              THEN NextHeaderColumn(HeaderColumn(RateHeader))
                     - HeaderColumn(RateHeader)
              ELSE 1
       /\ probe.meta.interestCount
            = IF HeaderColumn(InterestHeader) >= 0 THEN 1 ELSE 0
       /\ Loaded
          => /\ \A r \in probe.map.series :
                  /\ Len(r.rateValues) = probe.meta.rateCount
                  /\ Len(r.interestValues) = probe.meta.interestCount
             /\ probe.rows[2] = FirstRow
                  => IdRor0127 \in {r.seriesId : r \in probe.map.series}

\* the second copy, the rate header at 6, another header at 8 and no
\* interest header: two rate columns
C34_RateGroupToNextHeader ==
  /\ probe # NONE /\ MetaFound /\ ~SecondRowIsSubHeader /\ Loaded
  /\ probe.copy = "second"
  /\ HeaderColumn(RateHeader) = 6 /\ HeaderColumn(InterestHeader) = -1
  /\ probe.meta.rateCount = 2
  /\ \E r \in probe.map.series :
       r.seriesId = IdRor0127 /\ r.rateValues = << <<20>>, <<25>> >>

\* the rate header at 6 and the interest header at 9: three rate columns and
\* one interest column, read from the second row on
C34_Witness ==
  /\ probe # NONE /\ MetaFound /\ ~SecondRowIsSubHeader /\ Loaded
  /\ HeaderColumn(RateHeader) = 6 /\ HeaderColumn(InterestHeader) = 9
  /\ probe.meta.rateCount = 3 /\ probe.meta.interestCount = 1
  /\ probe.rows[2] = FirstRow
  /\ \E r \in probe.map.series :
       /\ r.seriesId = IdRor0127
       /\ r.rateValues = << <<20>>, <<25>>, <<30>> >>
       /\ r.interestValues = << <<1000>> >>

\* the interest header to the left of the rate header: one rate column
C34_WitnessInterestFirst ==
  /\ probe # NONE /\ MetaFound /\ ~SecondRowIsSubHeader
  /\ HeaderColumn(InterestHeader) = 6 /\ HeaderColumn(RateHeader) = 8
  /\ probe.meta.rateCount = 1 /\ probe.meta.interestCount = 1

(***************************************************************************)
(* C35: a second row with an empty first cell and a non-empty text cell is *)
(* a sub-header: the data start at row index 2, the width of each group is *)
(* the number of contiguous non-empty sub-header cells from the group's    *)
(* header column on (the rate width at least 1), and the rate group never  *)
(* overlaps the columns of the interest group                              *)
(***************************************************************************)
\* the cell at column idx of the second row is not empty
SubHeaderCellAt(idx) ==
  /\ idx + 1 \in DOMAIN probe.rows[2]
  /\ probe.rows[2][idx + 1] \notin {Missing, TextCell(<<>>)}

\* the number of contiguous non-empty cells of the second row from idx on
ContiguousFrom(idx) ==
  CHOOSE n \in 0..Len(probe.rows[2]) :
    /\ \A k \in 0..(n - 1) : SubHeaderCellAt(idx + k)
    /\ ~SubHeaderCellAt(idx + n)

\* the columns of a group
GroupColumns(idx, count) == idx..(idx + count - 1)

GroupsApart ==
  probe.meta.interestIdx >= 0
    => GroupColumns(probe.meta.rateIdx, probe.meta.rateCount)
         \cap GroupColumns(probe.meta.interestIdx, probe.meta.interestCount) = {}

C35_LayoutWithSubHeader ==
  (probe # NONE /\ MetaFound /\ SecondRowIsSubHeader)
    => /\ probe.meta.hasSubHeader
       /\ probe.meta.dataStartRow = 2
       /\ probe.meta.rateCount = Max(1, ContiguousFrom(HeaderColumn(RateHeader)))
       /\ HeaderColumn(InterestHeader) >= 0
            => probe.meta.interestCount
                 = ContiguousFrom(HeaderColumn(InterestHeader))
       /\ GroupsApart
       /\ Loaded => {IdRor0127, IdRor0227} \subseteq {r.seriesId : r \in probe.map.series}

\* the width the second copy allows a group: the distance from its header
\* to the next header, if there is one
WithinLimit(count, idx, next) ==
  IF next > idx THEN Min(count, next - idx) ELSE count

\* what holds of C35: in the first copy the widths are the counts, at least
\* 1, and the groups may overlap; in the second copy the widths are cut at
\* the next header, and the groups are apart
C35_LayoutWithSubHeaderByCopy ==
  (probe # NONE /\ MetaFound /\ SecondRowIsSubHeader)
    => /\ probe.meta.hasSubHeader
       /\ probe.meta.dataStartRow = 2
       /\ probe.copy = "first"
            => /\ probe.meta.rateCount
                    = Max(1, ContiguousFrom(HeaderColumn(RateHeader)))
               /\ HeaderColumn(InterestHeader) >= 0
                    => probe.meta.interestCount
                         = Max(1, ContiguousFrom(HeaderColumn(InterestHeader)))
       /\ probe.copy = "second"
            => /\ probe.meta.rateCount
                    = Max(1, WithinLimit(
                               ContiguousFrom(HeaderColumn(RateHeader)),
                               HeaderColumn(RateHeader),
                               IF HeaderColumn(InterestHeader) > HeaderColumn(RateHeader)
                               THEN HeaderColumn(InterestHeader)
                               ELSE NextHeaderColumn(HeaderColumn(RateHeader))))
               /\ HeaderColumn(InterestHeader) >= 0
                    => probe.meta.interestCount
                         = Max(1, WithinLimit(
                                    ContiguousFrom(HeaderColumn(InterestHeader)),
                                    HeaderColumn(InterestHeader),
                                    NextHeaderColumn(HeaderColumn(InterestHeader))))
               /\ GroupsApart
       /\ HeaderColumn(InterestHeader) < 0 => probe.meta.interestCount = 0
       /\ Loaded => {IdRor0127, IdRor0227} \subseteq {r.seriesId : r \in probe.map.series}

\* the first copy, sub-header texts under the columns 6 to 11, the rate
\* header at 6 and the interest header at 9: the rate group is 6 wide and
\* holds the three columns of the interest group
C35_GroupsOverlap ==
  /\ probe # NONE /\ MetaFound /\ SecondRowIsSubHeader /\ Loaded
  /\ probe.copy = "first"
  /\ probe.meta.rateIdx = 6 /\ probe.meta.interestIdx = 9
  /\ probe.meta.rateCount = 6 /\ probe.meta.interestCount = 3
  /\ \E r \in probe.map.series :
       /\ r.seriesId = IdRor0127
       /\ Len(r.rateValues) = 6
       /\ SubSeq(r.rateValues, 4, 6) = r.interestValues

\* the second copy on the same sheet: the rate group is cut to 3 columns,
\* fewer than the contiguous cells
C35_GroupCut ==
  /\ probe # NONE /\ MetaFound /\ SecondRowIsSubHeader
  /\ probe.copy = "second"
  /\ probe.meta.rateIdx = 6 /\ probe.meta.interestIdx = 9
  /\ ContiguousFrom(6) = 6
  /\ probe.meta.rateCount = 3 /\ probe.meta.interestCount = 3

\* no sub-header cell under the interest header: the interest group is 1
\* wide, not 0
C35_EmptyGroupOneWide ==
  /\ probe # NONE /\ MetaFound /\ SecondRowIsSubHeader
  /\ probe.meta.interestIdx >= 0
  /\ ContiguousFrom(probe.meta.interestIdx) = 0
  /\ probe.meta.interestCount = 1

(***************************************************************************)
(* updateQuotesInBatches on long lists of quotes, lines 638-649 and        *)
(* 835-850.  The requests of a chunk are alike, so only their numbers are  *)
(* kept: awaited by Promise.all, left with the host after the chunk        *)
(* failed, and answered with success.                                      *)
(***************************************************************************)
QuoteCounts == {0, 1, 49, 50, 51, 100, 120}

\* quotesToAdd of length n: the quotes are numbered
QuotesToAdd(n) == [k \in 1..n |-> k]

InitBatches ==
  /\ EngineInit
  /\ holdings = InitialHoldings
  /\ quoteStore = {}
  /\ tz = 1
  /\ probe \in [quotes : QuoteCounts, pc : {"diffed"}, sent : {0},
                awaited : {0}, orphaned : {0}, stored : {0},
                issued : {0}, suspended : {FALSE}]

\* lines 835-844: with quotes to add, the window is opened and the first
\* chunk is sent; with none, the symbol is marked processed
WriteQuotes ==
  /\ probe.pc = "diffed"
  /\ probe' = IF probe.quotes > 0
              THEN [probe EXCEPT
                      !.pc = "upsert",
                      !.suspended = TRUE,
                      !.awaited = Len(batchOf(QuotesToAdd(probe.quotes), 0)),
                      !.issued = Len(batchOf(QuotesToAdd(probe.quotes), 0))]
              ELSE [probe EXCEPT !.pc = "processed"]
  /\ UNCHANGED engineVars

\* the chunk after the one that starts at sent, if there is one (line 643)
nextChunk(state, i) ==
  IF i < state.quotes
  THEN [state EXCEPT
          !.sent = i,
          !.awaited = Len(batchOf(QuotesToAdd(state.quotes), i)),
          !.issued = state.issued + Len(batchOf(QuotesToAdd(state.quotes), i))]
  ELSE [state EXCEPT !.pc = "processed", !.awaited = 0]

\* an awaited request succeeds: with the last of the chunk Promise.all
\* resolves, and the loop sends the next chunk or returns (line 844 follows)
BatchUpsertOk ==
  /\ probe.pc = "upsert"
  /\ probe.awaited > 0
  /\ probe' = IF probe.awaited = 1
              THEN nextChunk([probe EXCEPT !.stored = probe.stored + 1],
                             probe.sent + BATCH_SIZE)
              ELSE [probe EXCEPT !.awaited = probe.awaited - 1,
                                 !.stored = probe.stored + 1]
  /\ UNCHANGED engineVars

\* an awaited request fails: Promise.all rejects, the catch of line 845
\* runs, and the other requests of the chunk are left with the host
BatchUpsertFail ==
  /\ probe.pc = "upsert"
  /\ probe.awaited > 0
  /\ probe' = [probe EXCEPT !.pc = "failed",
                            !.awaited = 0,
                            !.orphaned = probe.awaited - 1]
  /\ UNCHANGED engineVars

\* the host answers a request nobody awaits
OrphanAnswered ==
  /\ probe.orphaned > 0
  /\ \E ok \in BOOLEAN :
       probe' = [probe EXCEPT !.orphaned = probe.orphaned - 1,
                              !.stored = probe.stored + (IF ok THEN 1 ELSE 0)]
  /\ UNCHANGED engineVars

NextBatches == WriteQuotes \/ BatchUpsertOk \/ BatchUpsertFail \/ OrphanAnswered

SpecBatches == InitBatches /\ [][NextBatches]_vars

(***************************************************************************)
(* C36: the upserts of a symbol are issued in chunks of at most 50: at     *)
(* most 50 are outstanding at once, none of a later chunk is issued before *)
(* every one of the previous chunk has succeeded, and after a failed       *)
(* upsert no later chunk is issued and the symbol is not marked processed  *)
(***************************************************************************)
\* the requests the host has not answered
Outstanding(state) == state.awaited + state.orphaned

C36_ChunksOfFifty ==
  [][/\ probe # NONE /\ probe' # NONE
     /\ Outstanding(probe') <= 50
     /\ probe'.issued - probe.issued <= 50
     /\ probe'.issued > probe.issued
          => /\ Outstanding(probe) <= 1
             /\ probe.pc # "failed"
             /\ probe'.stored = probe.issued
             /\ probe'.pc = "upsert"
     /\ probe.pc = "failed"
          => /\ probe'.pc = "failed"
             /\ probe'.issued = probe.issued
     /\ probe'.pc = "processed"
          => /\ probe'.stored = probe'.quotes
             /\ probe'.issued = probe'.quotes
             /\ Outstanding(probe') = 0]_vars

\* 120 quotes: the third chunk, of 20, has been issued after 100 successes
C36_Witness ==
  /\ probe # NONE /\ probe.quotes = 120
  /\ probe.sent = 100 /\ probe.awaited = 20 /\ probe.stored = 100
  /\ probe.issued = 120

\* an upsert of the second chunk has failed: 49 requests are left with the
\* host, 20 quotes were never sent and the symbol is not processed
C36_WitnessFailed ==
  /\ probe # NONE /\ probe.quotes = 120
  /\ probe.pc = "failed" /\ probe.sent = 50
  /\ probe.orphaned = 49 /\ probe.issued = 100

(***************************************************************************)
(* The engine with a host whose every call succeeds: the user may buy a    *)
(* bond and portfolio-updated events arrive at any time; the host answers  *)
(* every request, delivers the events of the upserts, and timers fire.     *)
(***************************************************************************)
\* one step of a refresh pass or a successful answer to one of its requests
PassStepOk ==
  \/ \E p \in PassIds : AccountsOk(p)
  \/ \E p \in PassIds : HoldingsDone(p, {})
  \/ \E p \in PassIds : LoopStep(p)
  \/ \E p \in PassIds : SeriesLoaded(p)
  \/ \E p \in PassIds : ProfileOk(p)
  \/ \E p \in PassIds : UpdateProfileOk(p)
  \/ \E p \in PassIds : HistoryOk(p)
  \/ \E r \in outstanding : UpsertOk(r)

\* what the engine and the host do on their own
Answered ==
  \/ SubscribeOk
  \/ DeliverEvent
  \/ Tick
  \/ TimerFire
  \/ FetchOk
  \/ PassStepOk

NextHeld == Answered \/ ExternalEvent \/ HoldingsChange

SpecHeld == Init /\ [][NextHeld]_vars /\ WF_vars(Answered)

(***************************************************************************)
(* C37: every bond symbol held when a portfolio-updated event is delivered *)
(* outside the suppression window is eventually processed or skipped, all  *)
(* calls succeeding, also when the event joins a pass that is running      *)
(***************************************************************************)
\* the latest step delivered an event that called refreshHoldings
EventCalledRefresh == call.by = "event" /\ call.got # 0

HeldBond(s) == s \in HeldSymbols /\ parseBondSymbol(s) # NONE

Handled(s) == s \in processedSymbols \cup skippedSymbols

C37_HeldSymbolsHandled ==
  \A s \in Symbols :
    (EventCalledRefresh /\ HeldBond(s)) ~> (Handled(s) \/ failures > 0)

\* the same of the events that start a pass of their own
C37_HeldSymbolsHandledByOwnPass ==
  \A s \in Symbols :
    (EventCalledRefresh /\ call.running = 0 /\ HeldBond(s))
      ~> (Handled(s) \/ failures > 0)

\* an event has joined the running pass, which had listed the holdings
\* before the bond was bought
C37_JoinedAfterListing ==
  /\ EventCalledRefresh
  /\ call.running # 0
  /\ HeldBond(LaterHolding)
  /\ passes[call.running].seen # NONE
  /\ LaterHolding \notin UNION {Range(passes[call.running].seen[a]) :
                                  a \in DOMAIN passes[call.running].seen}

(***************************************************************************)
(* The date key of a quote the engine wrote: buildQuote (lines 415-434),   *)
(* extractQuoteDateKey (lines 464-482) and the diff of lines 818-833 over  *)
(* a history that an earlier run of the engine left                        *)
(***************************************************************************)
\* calendar dates at the ends of months and years and in between
KeyDates ==
  {DateOf(2023, 12, 31), DateOf(2024, 1, 1), DateOf(2024, 1, 19),
   DateOf(2024, 2, 28), DateOf(2024, 2, 29), DateOf(2024, 3, 1),
   DateOf(2025, 6, 30), DateOf(2033, 10, 1)}

KeySymbols == {SymRor, SymRorRaw, SymOts, SymEdo}

KeyPrices == {100000, 101250}

\* the schedule the earlier run wrote: the date, the day after (as in a
\* daily schedule) and a month later
KeySchedule(date, price) ==
  <<[date |-> date, price |-> price],
    [date |-> date + 1, price |-> price + 10],
    [date |-> date + 30, price |-> price + 300]>>

InitKeys ==
  /\ EngineInit
  /\ holdings = InitialHoldings
  /\ quoteStore = {}
  /\ probe \in [date : KeyDates, symbol : KeySymbols, price : KeyPrices,
                quote : {Uncalled}, keyed : {FALSE}, key : {<<>>},
                diffed : {FALSE}, added : {<<>>}]

BuildQuote ==
  /\ probe.quote = Uncalled
  /\ probe' = [probe EXCEPT !.quote = buildQuote(probe.symbol, probe.date,
                                                 probe.price)]
  /\ UNCHANGED engineVars

ExtractQuoteDateKey ==
  /\ probe.quote # Uncalled
  /\ ~probe.keyed
  /\ probe' = [probe EXCEPT !.keyed = TRUE,
                            !.key = extractQuoteDateKey(probe.quote)]
  /\ UNCHANGED engineVars

\* the quotes an earlier run recorded for the schedule
LeftBehind(symbol, schedule) ==
  {buildQuote(symbol, schedule[i].date, schedule[i].price) :
     i \in 1..Len(schedule)}

\* lines 801-833 of a fresh run over the history the earlier run left
DiffAgainstOwnQuotes ==
  /\ ~probe.diffed
  /\ probe' = [probe EXCEPT !.diffed = TRUE, !.added =
                 diffSchedule(probe.symbol,
                              KeySchedule(probe.date, probe.price),
                              LeftBehind(probe.symbol,
                                         KeySchedule(probe.date, probe.price)),
                              1)]
  /\ UNCHANGED engineVars

NextKeys == BuildQuote \/ ExtractQuoteDateKey \/ DiffAgainstOwnQuotes

SpecKeys == InitKeys /\ [][NextKeys]_vars

(***************************************************************************)
(* C38: for every date, symbol and local offset the date key derived from  *)
(* a quote the engine wrote itself is the ISO form of the date, so a fresh *)
(* run over the quotes of an earlier run writes nothing                    *)
(***************************************************************************)
C38_OwnQuoteKeyIsDate ==
  /\ probe.keyed => probe.key = <<formatDateISO(probe.date)>>
  /\ probe.diffed => probe.added = <<>>

\* east of Greenwich the key is the date and nothing is written; west of it
\* the key is the day before
C38_OwnQuoteKeyByOffset ==
  /\ probe.keyed
       => probe.key = <<formatDateISO(IF tz < 0 THEN probe.date - 1
                                      ELSE probe.date)>>
  /\ probe.diffed /\ tz > 0 => probe.added = <<>>

\* east of Greenwich: the key of the quote of 2024-01-01 is that date
C38_Witness ==
  /\ tz > 0
  /\ probe.date = DateOf(2024, 1, 1)
  /\ probe.keyed /\ probe.key = <<[y |-> 2024, m |-> 1, d |-> 1]>>
  /\ probe.diffed /\ probe.added = <<>>

\* west of Greenwich: the key of the quote of 2024-01-01 is 2023-12-31, and
\* the fresh run writes the first point over the record of the second and
\* the second and the last point again as additions
C38_WitnessWest ==
  /\ tz < 0
  /\ probe.date = DateOf(2024, 1, 1)
  /\ probe.keyed /\ probe.key = <<[y |-> 2023, m |-> 12, d |-> 31]>>
  /\ probe.diffed /\ Len(probe.added) = 3

(***************************************************************************)
(* C39: wherever the engine is suspended the processed and the skipped set *)
(* are disjoint and an in-flight symbol is in neither; a symbol goes only  *)
(* from unseen to in-flight, from in-flight to processed or to skipped,    *)
(* and from in-flight back to unseen after a caught error                  *)
(***************************************************************************)
\* where a symbol stands by the three sets
StateOf(s, inFlight, processed, skipped) ==
  IF s \in inFlight THEN "in-flight"
  ELSE IF s \in processed THEN "processed"
  ELSE IF s \in skipped THEN "skipped"
  ELSE "unseen"

SymbolTransitions ==
  {<<"unseen", "in-flight">>, <<"in-flight", "processed">>,
   <<"in-flight", "skipped">>, <<"in-flight", "unseen">>}

C39_SymbolStateMachine ==
  /\ [](/\ processedSymbols \cap skippedSymbols = {}
        /\ inFlightSymbols \cap (processedSymbols \cup skippedSymbols) = {})
  /\ [][\A s \in Symbols :
          LET before == StateOf(s, inFlightSymbols, processedSymbols,
                                skippedSymbols)
              after == StateOf(s, inFlightSymbols', processedSymbols',
                               skippedSymbols')
          IN /\ before # after => <<before, after>> \in SymbolTransitions
             /\ (before = "in-flight" /\ after = "unseen")
                  => Line("warn", "update", s) \in logged']_vars

\* a pass works on one symbol while another is processed and a third is
\* skipped
C39_Witness ==
  /\ \E s \in inFlightSymbols : s \in HeldSymbols
  /\ processedSymbols # {}
  /\ skippedSymbols # {}
  /\ lastPass # NONE

\* a symbol's turn has just ended in the catch: the symbol is unseen again
C39_WitnessBackToUnseen ==
  \E s \in HeldSymbols :
    /\ Line("warn", "update", s) \in logged
    /\ s \notin inFlightSymbols \cup processedSymbols \cup skippedSymbols
    /\ processedSymbols \cup skippedSymbols # {}

(***************************************************************************)
(* C40: an account whose holdings cannot be listed contributes no symbols  *)
(* and the symbols of the other accounts still get their turn in the same  *)
(* pass; when the accounts cannot be listed the pass logs one warning and  *)
(* ends, the four sets unchanged and nothing written; symbols that differ  *)
(* only in case or surrounding whitespace get one turn per pass            *)
(***************************************************************************)
\* the normalized symbols the given accounts hold
HeldBy(accounts) ==
  UNION {{normalizeSymbol(holdings[a][k]) : k \in 1..Len(holdings[a])} :
           a \in accounts} \ {<<>>}

\* pass p ends the listing of the holdings in this step
ListsHoldings(p) == passes[p].pc = "holdings" /\ passes'[p].pc = "loop"

\* pass p ends in this step while it awaits the accounts
AccountsRejected(p) == passes[p].pc = "accounts" /\ passes'[p].pc = "idle"

NoDuplicates(seq) ==
  \A i, j \in 1..Len(seq) : seq[i] = seq[j] => i = j

C40_HoldingsFailures ==
  /\ [](\A p \in PassIds :
          /\ NoDuplicates(passes[p].symbols)
          /\ \A i \in 1..Len(passes[p].symbols) :
               /\ passes[p].symbols[i] # <<>>
               /\ normalizeSymbol(passes[p].symbols[i]) = passes[p].symbols[i])
  /\ [][\A p \in PassIds :
          /\ ListsHoldings(p)
             => \E failing \in SUBSET Range(Accounts) :
                  /\ Cardinality(failing) = failures' - failures
                  /\ Range(passes'[p].symbols)
                       = HeldBy(Range(Accounts) \ failing)
          /\ (passes[p].pc = "loop" /\ passes'[p].pc = "loop")
             => /\ passes'[p].symbols = passes[p].symbols
                /\ passes'[p].idx \in {passes[p].idx, passes[p].idx + 1}
          /\ (passes[p].pc \notin {"idle", "accounts"} /\ passes'[p].pc = "idle")
             => (passes[p].pc = "loop"
                 /\ passes[p].idx > Len(passes[p].symbols))
          /\ AccountsRejected(p)
             => /\ logged' = {Line("warn", "holdings", <<>>)}
                /\ UNCHANGED <<processedSymbols, skippedSymbols,
                               inFlightSymbols, metadataUpdatedSymbols,
                               quoteStore, profiles, outstanding>>
                /\ io' = NoIo]_vars

\* the holdings of the first account could not be listed: the pass is at
\* work on the symbols of the second only, ROR0127.19 of " ror0127.19"
C40_Witness ==
  \E p \in PassIds :
    /\ passes[p].seen = InitialHoldings
    /\ passes[p].symbols = <<SymRor, SymEdo>>
    /\ passes[p].idx = 2
    /\ SymRor \in processedSymbols

\* both accounts listed: ROR0127.19, held in two spellings, is there once
C40_WitnessOnce ==
  \E p \in PassIds :
    /\ passes[p].seen = InitialHoldings
    /\ passes[p].symbols = <<SymRor, SymAapl, SymEdo>>
    /\ passes[p].idx = 3

\* the accounts could not be listed: the pass has ended with the warning
C40_WitnessAccounts ==
  /\ logged = {Line("warn", "holdings", <<>>)}
  /\ RunningPasses = {}
  /\ processedSymbols # {}

====
